---- MODULE Spec2Model ----
(***************************************************************************)
(* Model of delatin-rs: greedy TIN construction over a height grid.        *)
(*   src/lib/src/lib.rs            triangulate                             *)
(*   src/lib/src/triangulation.rs  Triangulation (mesh + refinement loop)  *)
(*   src/lib/src/priority_queue.rs PriorityQueue (indexed max-heap)        *)
(*   src/lib/src/utils.rs          get_signed_area, is_point_in_circumcircle*)
(*                                                                         *)
(* Vectors are sequences; the code's 0-based index i is position i+1.      *)
(* Option<usize>::None is None (-1).  Heights and errors (f64 in the code) *)
(* are exact rationals: a height is an integer, an error is a pair         *)
(* <<numerator, denominator>> with denominator > 0, the tolerance is a     *)
(* pair whose denominator 0 stands for +infinity.  A Rust panic (index out *)
(* of bounds, usize underflow) sets the field panic and freezes the object.*)
(***************************************************************************)
EXTENDS Integers, Sequences, FiniteSets, TLC

VARIABLES
    pc,                        \* position in triangulate / run, or "queue" for the queue driver
    result,                    \* what triangulate returned: "none", "Ok", an error name, or "panic"
    width, height,             \* dimesions
    height_data,               \* the height slice
    max_error,                 \* the tolerance, <<num, den>>
    vertex_points,             \* Triangulation.vertex_points
    triangles,                 \* Triangulation.triangles
    half_edges,                \* Triangulation.half_edges
    candidate_points,          \* Triangulation.candidate_points
    triangle_queue,            \* PriorityQueue.triangle_queue
    triangle_queue_indices,    \* PriorityQueue.triangle_queue_indices
    triangle_errors,           \* PriorityQueue.triangle_errors
    pending_triangle_indices,  \* PriorityQueue.pending_triangle_indices
    legalize_stack,            \* pending legalize calls of the current step, next call first
    steps,                     \* number of refine() calls completed
    flips,                     \* number of flips legalize has made in this run
    last_op,                   \* the operation the last transition performed, with its inputs
    adds                       \* the mesh after each add_triangle call of the last transition

vars == <<pc, result, width, height, height_data, max_error, vertex_points,
          triangles, half_edges, candidate_points, triangle_queue,
          triangle_queue_indices, triangle_errors, pending_triangle_indices,
          legalize_stack, steps, flips, last_op, adds>>

queue_vars == <<triangle_queue, triangle_queue_indices, triangle_errors,
                pending_triangle_indices>>

mesh_vars == <<vertex_points, triangles, half_edges, candidate_points>>

(***************************************************************************)
(* Bounds of the model.                                                    *)
(***************************************************************************)
\* grids are W x H with 2 <= W, H <= MaxDim
MaxDim == 4

\* a raised cell of the height grid is raised by 1 .. MaxHeight; a ramp has
\* slopes 0 .. MaxHeight in x and in y
MaxHeight == 2

\* the tolerance is k/2 for 0 <= k <= MaxTau2, or +infinity
MaxTau2 == 2

\* the cells of a height grid that may be raised above the flat base: two
RaisedCells == {1, 2}

\* queue driver: the reverse index has 1 .. MaxQueueLen entries
MaxQueueLen == 3

\* queue driver: errors pushed are 0 .. MaxQueueErr
MaxQueueErr == 2

\* queue driver: number of operations applied
MaxQueueOps == 5

None == -1

At(s, i) == s[i + 1]

SetAt(s, i, v) == [s EXCEPT ![i + 1] = v]

SwapAt(s, i, j) == [s EXCEPT ![i + 1] = s[j + 1], ![j + 1] = s[i + 1]]

Min3(a, b, c) == IF a <= b /\ a <= c THEN a ELSE IF b <= c THEN b ELSE c

Max3(a, b, c) == IF a >= b /\ a >= c THEN a ELSE IF b >= c THEN b ELSE c

Abs(a) == IF a < 0 THEN -a ELSE a

\* Rust's integer division: the quotient truncated toward zero
TruncDiv(a, b) ==
    LET q == Abs(a) \div Abs(b)
    IN  IF (a < 0) = (b < 0) THEN q ELSE -q

\* `>` on Error(f64): n1/d1 > n2/d2 (d = 0 is +infinity, only as right operand)
ErrGT(e1, e2) == e1[1] * e2[2] > e2[1] * e1[2]

ZeroError == <<0, 1>>

(***************************************************************************)
(* utils.rs                                                                *)
(***************************************************************************)
get_signed_area(point_a, point_b, point_c) ==
    LET r1 == point_b[1] - point_c[1]
        r2 == point_a[2] - point_c[2]
        r3 == point_b[2] - point_c[2]
        r4 == point_a[1] - point_c[1]
    IN  r1 * r2 - r3 * r4

\* mutant: the sign of the determinant read the other way round
is_point_in_circumcircle_sign(test_point, point_a, point_b, point_c) ==
    LET delta_x_a == point_a[1] - test_point[1]
        delta_y_a == point_a[2] - test_point[2]
        delta_x_b == point_b[1] - test_point[1]
        delta_y_b == point_b[2] - test_point[2]
        delta_x_c == point_c[1] - test_point[1]
        delta_y_c == point_c[2] - test_point[2]
        square_distance_a == delta_x_a * delta_x_a + delta_y_a * delta_y_a
        square_distance_b == delta_x_b * delta_x_b + delta_y_b * delta_y_b
        square_distance_c == delta_x_c * delta_x_c + delta_y_c * delta_y_c
    IN  delta_x_a * (delta_y_b * square_distance_c - square_distance_b * delta_y_c)
          - delta_y_a * (delta_x_b * square_distance_c - square_distance_b * delta_x_c)
          + square_distance_a * (delta_x_b * delta_y_c - delta_y_b * delta_x_c)
          > 0

\* mutant: a point on the circle counts as inside
is_point_in_circumcircle_closed(test_point, point_a, point_b, point_c) ==
    LET delta_x_a == point_a[1] - test_point[1]
        delta_y_a == point_a[2] - test_point[2]
        delta_x_b == point_b[1] - test_point[1]
        delta_y_b == point_b[2] - test_point[2]
        delta_x_c == point_c[1] - test_point[1]
        delta_y_c == point_c[2] - test_point[2]
        square_distance_a == delta_x_a * delta_x_a + delta_y_a * delta_y_a
        square_distance_b == delta_x_b * delta_x_b + delta_y_b * delta_y_b
        square_distance_c == delta_x_c * delta_x_c + delta_y_c * delta_y_c
    IN  delta_x_a * (delta_y_b * square_distance_c - square_distance_b * delta_y_c)
          - delta_y_a * (delta_x_b * square_distance_c - square_distance_b * delta_x_c)
          + square_distance_a * (delta_x_b * delta_y_c - delta_y_b * delta_x_c)
          <= 0

is_point_in_circumcircle(test_point, point_a, point_b, point_c) ==
    LET delta_x_a == point_a[1] - test_point[1]
        delta_y_a == point_a[2] - test_point[2]
        delta_x_b == point_b[1] - test_point[1]
        delta_y_b == point_b[2] - test_point[2]
        delta_x_c == point_c[1] - test_point[1]
        delta_y_c == point_c[2] - test_point[2]
        square_distance_a == delta_x_a * delta_x_a + delta_y_a * delta_y_a
        square_distance_b == delta_x_b * delta_x_b + delta_y_b * delta_y_b
        square_distance_c == delta_x_c * delta_x_c + delta_y_c * delta_y_c
    IN  delta_x_a * (delta_y_b * square_distance_c - square_distance_b * delta_y_c)
          - delta_y_a * (delta_x_b * square_distance_c - square_distance_b * delta_x_c)
          + square_distance_a * (delta_x_b * delta_y_c - delta_y_b * delta_x_c)
          < 0

(***************************************************************************)
(* priority_queue.rs.  The operators act on the record m that holds the    *)
(* Triangulation with its PriorityQueue; m.ret is the value the last       *)
(* called function returned.                                               *)
(***************************************************************************)
Panic(m) == [m EXCEPT !.panic = TRUE]

\* PriorityQueue::new: the reverse index has queue_len entries, all None
NewQueueIndices(queue_len) == [i \in 1..queue_len |-> None]

add_pending_triangle(m, t) ==
    [m EXCEPT !.pending_triangle_indices = Append(@, t)]

\* mutant: the last heap entry read instead of the first
get_max_error_last(m) ==
    IF Len(m.triangle_errors) = 0 THEN None
    ELSE At(m.triangle_errors, Len(m.triangle_errors) - 1)

get_max_error(m) ==
    IF Len(m.triangle_errors) = 0 THEN None ELSE At(m.triangle_errors, 0)

\* mutant: the comparison of a min-heap
less_reversed(m, i, j) == ErrGT(At(m.triangle_errors, j), At(m.triangle_errors, i))

less(m, i, j) == ErrGT(At(m.triangle_errors, i), At(m.triangle_errors, j))

\* mutant: only the reverse-index entry of the first triangle is rewritten
swap_one_index(m, i, j) ==
    IF m.panic THEN m
    ELSE IF i >= Len(m.triangle_queue) \/ j >= Len(m.triangle_queue) THEN Panic(m)
    ELSE LET pi == At(m.triangle_queue, i)
             pj == At(m.triangle_queue, j)
         IN  IF pi >= Len(m.triangle_queue_indices)
                 \/ pj >= Len(m.triangle_queue_indices) THEN Panic(m)
             ELSE [m EXCEPT
                     !.triangle_queue_indices = SetAt(@, pi, j),
                     !.triangle_queue = SwapAt(@, i, j),
                     !.triangle_errors = SwapAt(@, i, j)]

swap(m, i, j) ==
    IF m.panic THEN m
    ELSE IF i >= Len(m.triangle_queue) \/ j >= Len(m.triangle_queue) THEN Panic(m)
    ELSE LET pi == At(m.triangle_queue, i)
             pj == At(m.triangle_queue, j)
         IN  IF pi >= Len(m.triangle_queue_indices)
                 \/ pj >= Len(m.triangle_queue_indices) THEN Panic(m)
             ELSE [m EXCEPT
                     !.triangle_queue_indices = SetAt(SetAt(@, pi, j), pj, i),
                     !.triangle_queue = SwapAt(@, i, j),
                     !.triangle_errors = SwapAt(@, i, j)]

RECURSIVE up(_, _)
up(m, j) ==
    IF m.panic \/ j = 0 THEN m
    ELSE LET i == (j - 1) \div 2
         IN  IF ~less(m, j, i) THEN m
             ELSE up(swap(m, i, j), i)

\* mutant: the first child is taken without a look at the second
RECURSIVE down_first_child(_, _, _)
down_first_child(m, i, n) ==
    LET j1 == 2 * i + 1
    IN  IF m.panic \/ j1 >= n THEN [m |-> m, i |-> i]
        ELSE IF ~less(m, j1, i) THEN [m |-> m, i |-> i]
        ELSE down_first_child(swap(m, i, j1), j1, n)

\* down returns the queue and the final position i; the code's result is i > i0
RECURSIVE down(_, _, _)
down(m, i, n) ==
    LET j1 == 2 * i + 1
        j2 == j1 + 1
        j  == IF j2 < n /\ less(m, j2, j1) THEN j2 ELSE j1
    IN  IF m.panic \/ j1 >= n THEN [m |-> m, i |-> i]
        ELSE IF ~less(m, j, i) THEN [m |-> m, i |-> i]
        ELSE down(swap(m, i, j), j, n)

pop_back(m) ==
    IF m.panic THEN m
    ELSE IF Len(m.triangle_queue) = 0 THEN [m EXCEPT !.ret = None]
    ELSE LET n == Len(m.triangle_queue)
             triangle == m.triangle_queue[n]
         IN  IF triangle >= Len(m.triangle_queue_indices) THEN Panic(m)
             ELSE [m EXCEPT
                     !.triangle_queue = SubSeq(@, 1, n - 1),
                     !.triangle_errors = SubSeq(@, 1, n - 1),
                     !.triangle_queue_indices = SetAt(@, triangle, None),
                     !.ret = triangle]

push(m, triangle_index, error) ==
    IF m.panic THEN m
    ELSE LET queue_length == Len(m.triangle_queue)
         IN  IF triangle_index >= Len(m.triangle_queue_indices) THEN Panic(m)
             ELSE up([m EXCEPT
                        !.triangle_queue_indices = SetAt(@, triangle_index, queue_length),
                        !.triangle_queue = Append(@, triangle_index),
                        !.triangle_errors = Append(@, error)],
                     queue_length)

\* len() - 1 on an empty queue: the subtraction panics in a debug build; in a
\* release build it wraps and swap(0, usize::MAX) indexes out of bounds.
pop(m) ==
    IF m.panic THEN m
    ELSE IF Len(m.triangle_queue) = 0 THEN Panic(m)
    ELSE LET last_item_index == Len(m.triangle_queue) - 1
         IN  pop_back(down(swap(m, 0, last_item_index), 0, last_item_index).m)

\* position of the first occurrence of t in s (0-based), None when absent
RECURSIVE PositionFrom(_, _, _)
PositionFrom(s, t, k) ==
    IF k > Len(s) THEN None
    ELSE IF s[k] = t THEN k - 1
    ELSE PositionFrom(s, t, k + 1)

\* mutant: a triangle that is in the heap is left there
remove_pending_only(m, requested_triangle_index) ==
    IF m.panic THEN m
    ELSE IF requested_triangle_index >= Len(m.triangle_queue_indices) THEN Panic(m)
    ELSE LET index == At(m.triangle_queue_indices, requested_triangle_index)
             pending_length == Len(m.pending_triangle_indices)
             pos == PositionFrom(m.pending_triangle_indices,
                                 requested_triangle_index, 1)
         IN  IF index # None \/ pos = None THEN m
             ELSE [m EXCEPT !.pending_triangle_indices =
                     SubSeq(SwapAt(@, pos, pending_length - 1),
                            1, pending_length - 1)]

\* mutant: a triangle that is not in the heap is not looked for in the
\* pending vector
remove_heap_only(m, requested_triangle_index) ==
    IF m.panic THEN m
    ELSE IF requested_triangle_index >= Len(m.triangle_queue_indices) THEN Panic(m)
    ELSE LET index == At(m.triangle_queue_indices, requested_triangle_index)
         IN  IF index = None THEN m
             ELSE LET last_item_index == Len(m.triangle_queue) - 1
                  IN  IF last_item_index # index
                      THEN LET s == swap(m, index, last_item_index)
                               d == down(s, index, last_item_index)
                           IN  pop_back(IF d.i > index THEN d.m ELSE up(d.m, index))
                      ELSE pop_back(m)

remove(m, requested_triangle_index) ==
    IF m.panic THEN m
    ELSE IF requested_triangle_index >= Len(m.triangle_queue_indices) THEN Panic(m)
    ELSE LET index == At(m.triangle_queue_indices, requested_triangle_index)
         IN  IF index = None
             THEN LET pending_length == Len(m.pending_triangle_indices)
                      pos == PositionFrom(m.pending_triangle_indices,
                                          requested_triangle_index, 1)
                  IN  IF pos = None THEN m
                      ELSE [m EXCEPT !.pending_triangle_indices =
                              SubSeq(SwapAt(@, pos, pending_length - 1),
                                     1, pending_length - 1)]
             ELSE LET last_item_index == Len(m.triangle_queue) - 1
                  IN  IF last_item_index # index
                      THEN LET s == swap(m, index, last_item_index)
                               d == down(s, index, last_item_index)
                           IN  pop_back(IF d.i > index THEN d.m ELSE up(d.m, index))
                      ELSE pop_back(m)

\* the path remove(requested_triangle_index) takes through lines 54-77
RemoveKind(m, requested_triangle_index) ==
    IF requested_triangle_index >= Len(m.triangle_queue_indices) THEN "panic"
    ELSE LET index == At(m.triangle_queue_indices, requested_triangle_index)
             last_item_index == Len(m.triangle_queue) - 1
         IN  IF index = None
             THEN IF PositionFrom(m.pending_triangle_indices,
                                  requested_triangle_index, 1) = None
                  THEN "absent" ELSE "pending"
             ELSE IF last_item_index = index THEN "last"
             ELSE LET d == down(swap(m, index, last_item_index), index, last_item_index)
                  IN  IF d.i > index THEN "down"
                      ELSE IF up(d.m, index) # d.m THEN "up"
                      ELSE "stay"

(***************************************************************************)
(* triangulation.rs                                                        *)
(***************************************************************************)
Create == [kind |-> "Create", index |-> None]

Update(index) == [kind |-> "Update", index |-> index]

height_at(point) == height_data[width * point[2] + point[1] + 1]

\* Triangulation::new followed by nothing else: empty vectors, a reverse
\* index of width * height / 4 entries
NewTriangulation ==
    [vertex_points |-> <<>>, triangles |-> <<>>, half_edges |-> <<>>,
     candidate_points |-> <<>>, triangle_queue |-> <<>>,
     triangle_queue_indices |-> NewQueueIndices((width * height) \div 4),
     triangle_errors |-> <<>>, pending_triangle_indices |-> <<>>,
     calls |-> <<>>, log |-> <<>>, panic |-> FALSE, ret |-> None]

add_point(m, point) ==
    [m EXCEPT !.vertex_points = Append(@, point), !.ret = Len(m.vertex_points)]

\* the mesh as an observer between two add_triangle calls sees it
Snapshot(m) ==
    [triangles |-> m.triangles, half_edges |-> m.half_edges,
     triangle_queue |-> m.triangle_queue,
     pending_triangle_indices |-> m.pending_triangle_indices]

\* mutant: the reverse link is not written back
LinkHalfEdge_none(half_edges_seq, half_edge, position) == half_edges_seq

LinkHalfEdge(half_edges_seq, half_edge, position) ==
    IF half_edge = None THEN half_edges_seq
    ELSE SetAt(half_edges_seq, half_edge, position)

add_triangle(m, triangle, half_edge_ab, half_edge_bc, half_edge_ca, add_strategy) ==
    IF m.panic THEN m
    ELSE
    LET index_to_add == IF add_strategy.kind = "Update" THEN add_strategy.index
                        ELSE Len(m.triangles)
        written ==
            IF add_strategy.kind = "Update"
            THEN [m EXCEPT
                    !.triangles = SetAt(SetAt(SetAt(@, index_to_add, triangle[1]),
                                              index_to_add + 1, triangle[2]),
                                        index_to_add + 2, triangle[3]),
                    !.half_edges = SetAt(SetAt(SetAt(@, index_to_add, half_edge_ab),
                                               index_to_add + 1, half_edge_bc),
                                         index_to_add + 2, half_edge_ca)]
            ELSE [m EXCEPT
                    !.triangles = @ \o <<triangle[1], triangle[2], triangle[3]>>,
                    !.half_edges = @ \o <<half_edge_ab, half_edge_bc, half_edge_ca>>]
        triangle_index == index_to_add \div 3
        linked == [written EXCEPT
                     !.half_edges =
                        LinkHalfEdge(LinkHalfEdge(LinkHalfEdge(@,
                            half_edge_ab, index_to_add),
                            half_edge_bc, index_to_add + 1),
                            half_edge_ca, index_to_add + 2),
                     !.candidate_points = Append(@, <<0, 0>>),
                     !.ret = index_to_add]
        queued == add_pending_triangle(linked, triangle_index)
    IN  [queued EXCEPT !.log = Append(@, Snapshot(queued))]

\* mutant: the start column taken one past the quotient
StartOffset_past(signed_area, y_diff) ==
    IF signed_area < 0 /\ y_diff # 0
    THEN LET q == TruncDiv(-signed_area, y_diff) IN IF q < 0 THEN 0 ELSE q + 1
    ELSE 0

\* `((-w / dy) as f32).floor() as usize`: the integer quotient truncates toward
\* zero, and the cast to usize saturates a negative value at 0
StartOffset(signed_area, y_diff) ==
    IF signed_area < 0 /\ y_diff # 0
    THEN LET q == TruncDiv(-signed_area, y_diff) IN IF q < 0 THEN 0 ELSE q
    ELSE 0

Max(a, b) == IF a >= b THEN a ELSE b

\* mutant: the row is left at the first pixel outside the triangle, also
\* before the triangle has been entered
RECURSIVE ScanRow_break(_, _, _, _, _, _, _, _)
ScanRow_break(g, x, y, bc, ca, ab, was_inside, acc) ==
    IF x > g.max_x THEN acc
    ELSE LET seen == [acc EXCEPT !.scanned = @ \cup {<<x, y, bc, ca, ab>>}]
         IN  IF bc >= 0 /\ ca >= 0 /\ ab >= 0
             THEN LET z_num == g.height_a * bc + g.height_b * ca + g.height_c * ab
                      z_diff == Abs(z_num - height_at(<<x, y>>) * g.area)
                      next == IF g.area # 0 /\ z_diff > acc.max_error
                              THEN [seen EXCEPT !.max_error = z_diff,
                                                !.max_error_point = <<x, y>>]
                              ELSE seen
                  IN  ScanRow_break(g, x + 1, y, bc + g.cb_y_diff, ca + g.ac_y_diff,
                                    ab + g.ba_y_diff, TRUE, next)
             ELSE seen

\* the inner loop over x of find_candidate; g holds the triangle's constants,
\* acc the running max_error (numerator over |area|), max_error_point and,
\* as a record of the scan, the pixels tested with their three edge functions
RECURSIVE ScanRow(_, _, _, _, _, _, _, _)
ScanRow(g, x, y, bc, ca, ab, was_inside, acc) ==
    IF x > g.max_x THEN acc
    ELSE LET seen == [acc EXCEPT !.scanned = @ \cup {<<x, y, bc, ca, ab>>}]
         IN  IF bc >= 0 /\ ca >= 0 /\ ab >= 0
             THEN LET z_num == g.height_a * bc + g.height_b * ca + g.height_c * ab
                      z_diff == Abs(z_num - height_at(<<x, y>>) * g.area)
                      next == IF g.area # 0 /\ z_diff > acc.max_error
                              THEN [seen EXCEPT !.max_error = z_diff,
                                                !.max_error_point = <<x, y>>]
                              ELSE seen
                  IN  ScanRow(g, x + 1, y, bc + g.cb_y_diff, ca + g.ac_y_diff,
                              ab + g.ba_y_diff, TRUE, next)
             ELSE IF was_inside THEN seen
             ELSE ScanRow(g, x + 1, y, bc + g.cb_y_diff, ca + g.ac_y_diff,
                          ab + g.ba_y_diff, FALSE, seen)

\* the outer loop over y of find_candidate
RECURSIVE ScanRows(_, _, _, _, _, _)
ScanRows(g, y, bcmin, camin, abmin, acc) ==
    IF y > g.max_y THEN acc
    ELSE LET offset_x == Max(Max(StartOffset(bcmin, g.cb_y_diff),
                                 StartOffset(camin, g.ac_y_diff)),
                             StartOffset(abmin, g.ba_y_diff))
             row == ScanRow(g, g.min_x + offset_x, y,
                            bcmin + g.cb_y_diff * offset_x,
                            camin + g.ac_y_diff * offset_x,
                            abmin + g.ba_y_diff * offset_x, FALSE, acc)
         IN  ScanRows(g, y + 1, bcmin + g.bc_x_diff, camin + g.ca_x_diff,
                      abmin + g.ab_x_diff, row)

TrianglePoints(m, triangle_index) ==
    <<At(m.vertex_points, At(m.triangles, triangle_index * 3)),
      At(m.vertex_points, At(m.triangles, triangle_index * 3 + 1)),
      At(m.vertex_points, At(m.triangles, triangle_index * 3 + 2))>>

\* the rasterization of find_candidate: the error and the candidate it pushes
Rasterize(point_a, point_b, point_c) ==
    LET min_x == Min3(point_a[1], point_b[1], point_c[1])
        min_y == Min3(point_a[2], point_b[2], point_c[2])
        g == [min_x |-> min_x,
              max_x |-> Max3(point_a[1], point_b[1], point_c[1]),
              max_y |-> Max3(point_a[2], point_b[2], point_c[2]),
              area |-> get_signed_area(point_a, point_b, point_c),
              ba_y_diff |-> point_b[2] - point_a[2],
              ab_x_diff |-> point_a[1] - point_b[1],
              cb_y_diff |-> point_c[2] - point_b[2],
              bc_x_diff |-> point_b[1] - point_c[1],
              ac_y_diff |-> point_a[2] - point_c[2],
              ca_x_diff |-> point_c[1] - point_a[1],
              height_a |-> height_at(point_a),
              height_b |-> height_at(point_b),
              height_c |-> height_at(point_c)]
        scan == ScanRows(g, min_y,
                         get_signed_area(point_b, point_c, <<min_x, min_y>>),
                         get_signed_area(point_c, point_a, <<min_x, min_y>>),
                         get_signed_area(point_a, point_b, <<min_x, min_y>>),
                         [max_error |-> 0, max_error_point |-> <<0, 0>>,
                          scanned |-> {}])
        at_vertex == scan.max_error_point \in {point_a, point_b, point_c}
    IN  [max_error |-> IF at_vertex \/ g.area = 0 THEN ZeroError
                       ELSE <<scan.max_error, Abs(g.area)>>,
         max_error_point |-> scan.max_error_point,
         scanned |-> scan.scanned]

\* mutant: the candidate is stored with its coordinates exchanged
find_candidate_transposed(m, triangle_index) ==
    IF m.panic THEN m
    ELSE LET p == TrianglePoints(m, triangle_index)
             r == Rasterize(p[1], p[2], p[3])
         IN  push([m EXCEPT !.candidate_points =
                               SetAt(@, triangle_index,
                                     <<r.max_error_point[2], r.max_error_point[1]>>)],
                  triangle_index, r.max_error)

find_candidate(m, triangle_index) ==
    IF m.panic THEN m
    ELSE LET p == TrianglePoints(m, triangle_index)
             r == Rasterize(p[1], p[2], p[3])
         IN  push([m EXCEPT !.candidate_points =
                               SetAt(@, triangle_index, r.max_error_point)],
                  triangle_index, r.max_error)

\* mutant: the loop stops one short of the last pending triangle
RECURSIVE FlushEach_short(_, _, _)
FlushEach_short(m, pending_triangles, k) ==
    IF k >= Len(pending_triangles) THEN m
    ELSE FlushEach_short(find_candidate(m, pending_triangles[k]), pending_triangles, k + 1)

RECURSIVE FlushEach(_, _, _)
FlushEach(m, pending_triangles, k) ==
    IF k > Len(pending_triangles) THEN m
    ELSE FlushEach(find_candidate(m, pending_triangles[k]), pending_triangles, k + 1)

\* consume_pending_triangles drains the pending vector before the loop runs
flush(m) ==
    IF m.panic THEN m
    ELSE FlushEach([m EXCEPT !.pending_triangle_indices = <<>>],
                   m.pending_triangle_indices, 1)

\* the calls `self.legalize(..)` a function makes one after another: they run
\* before whatever calls were already waiting
CallLegalize(m, requested) ==
    IF m.panic THEN m ELSE [m EXCEPT !.calls = requested \o @]

\* the arguments of one add_triangle call
AddCall(triangle, half_edge_ab, half_edge_bc, half_edge_ca, add_strategy) ==
    [triangle |-> triangle, half_edge_ab |-> half_edge_ab,
     half_edge_bc |-> half_edge_bc, half_edge_ca |-> half_edge_ca,
     add_strategy |-> add_strategy]

\* mutant: the last of the calls is left out
RECURSIVE AddTriangles_short(_, _, _)
AddTriangles_short(m, add_calls, k) ==
    IF k >= Len(add_calls) THEN m
    ELSE AddTriangles_short(add_triangle(m, add_calls[k].triangle,
                                         add_calls[k].half_edge_ab,
                                         add_calls[k].half_edge_bc,
                                         add_calls[k].half_edge_ca,
                                         add_calls[k].add_strategy),
                            add_calls, k + 1)

\* consecutive add_triangle calls.  The value a call returns is known before
\* it runs: Update(i) returns i, Create returns the length of triangles, so
\* the callers below name new_triangle_k by that value.
RECURSIVE AddTriangles(_, _, _)
AddTriangles(m, add_calls, k) ==
    IF k > Len(add_calls) THEN m
    ELSE AddTriangles(add_triangle(m, add_calls[k].triangle,
                                   add_calls[k].half_edge_ab,
                                   add_calls[k].half_edge_bc,
                                   add_calls[k].half_edge_ca,
                                   add_calls[k].add_strategy),
                      add_calls, k + 1)

handle_collinear(m0, new_vertex_index, collinear_vertex_index) ==
    LET collinear_base_index == collinear_vertex_index - (collinear_vertex_index % 3)
        vertex_a_triangle_index == collinear_base_index + ((collinear_vertex_index + 1) % 3)
        vertex_b_triangle_index == collinear_base_index + ((collinear_vertex_index + 2) % 3)
        collinear_vertex_point_index == At(m0.triangles, collinear_vertex_index)
        vertex_a_point_index == At(m0.triangles, vertex_a_triangle_index)
        vertex_b_point_index == At(m0.triangles, vertex_b_triangle_index)
        half_edge_a == At(m0.half_edges, vertex_a_triangle_index)
        half_edge_b == At(m0.half_edges, vertex_b_triangle_index)
        collinear_half_edge == At(m0.half_edges, collinear_vertex_index)
        created == Len(m0.triangles)
    IN  IF collinear_half_edge # None
        THEN LET adjacent_triangle_base_index == collinear_half_edge - (collinear_half_edge % 3)
                 adjacent_left_edge_index ==
                     adjacent_triangle_base_index + ((collinear_half_edge + 2) % 3)
                 adjacent_right_edge_index ==
                     adjacent_triangle_base_index + ((collinear_half_edge + 1) % 3)
                 vertex1 == At(m0.triangles, adjacent_left_edge_index)
                 half_edge_adjacent_left == At(m0.half_edges, adjacent_left_edge_index)
                 half_edge_adjacent_right == At(m0.half_edges, adjacent_right_edge_index)
                 new_triangle_0 == collinear_base_index
                 new_triangle_1 == adjacent_triangle_base_index
                 new_triangle_2 == created
                 new_triangle_3 == created + 3
             IN  CallLegalize(
                   AddTriangles(remove(m0, adjacent_triangle_base_index \div 3),
                     <<AddCall(<<vertex_b_point_index, collinear_vertex_point_index,
                                 new_vertex_index>>,
                               half_edge_b, None, None, Update(collinear_base_index)),
                       AddCall(<<collinear_vertex_point_index, vertex1, new_vertex_index>>,
                               half_edge_adjacent_right, None, new_triangle_0 + 1,
                               Update(adjacent_triangle_base_index)),
                       AddCall(<<vertex1, vertex_a_point_index, new_vertex_index>>,
                               half_edge_adjacent_left, None, new_triangle_1 + 1, Create),
                       AddCall(<<vertex_a_point_index, vertex_b_point_index, new_vertex_index>>,
                               half_edge_a, new_triangle_0 + 2, new_triangle_2 + 1, Create)>>,
                     1),
                   <<new_triangle_0, new_triangle_1, new_triangle_2, new_triangle_3>>)
        ELSE LET new_triangle_0 == collinear_base_index
                 new_triangle_1 == created
             IN  CallLegalize(
                   AddTriangles(m0,
                     <<AddCall(<<new_vertex_index, vertex_b_point_index,
                                 collinear_vertex_point_index>>,
                               None, half_edge_b, None, Update(collinear_base_index)),
                       AddCall(<<vertex_b_point_index, new_vertex_index, vertex_a_point_index>>,
                               new_triangle_0, None, half_edge_a, Create)>>,
                     1),
                   <<new_triangle_0 + 1, new_triangle_1 + 2>>)

\* step from add_point on: m1 is the object after pop and add_point
StepInsert(m1, queued_triangle, new_vertex_index) ==
    LET vertex_a_triangle_index == queued_triangle * 3
        vertex_b_triangle_index == queued_triangle * 3 + 1
        vertex_c_triangle_index == queued_triangle * 3 + 2
        vertex_a_point_index == At(m1.triangles, vertex_a_triangle_index)
        vertex_b_point_index == At(m1.triangles, vertex_b_triangle_index)
        vertex_c_point_index == At(m1.triangles, vertex_c_triangle_index)
        point_a == At(m1.vertex_points, vertex_a_point_index)
        point_b == At(m1.vertex_points, vertex_b_point_index)
        point_c == At(m1.vertex_points, vertex_c_point_index)
        candidate_point == At(m1.vertex_points, new_vertex_index)
        half_edge_a == At(m1.half_edges, vertex_a_triangle_index)
        half_edge_b == At(m1.half_edges, vertex_b_triangle_index)
        half_edge_c == At(m1.half_edges, vertex_c_triangle_index)
        new_triangle_0 == vertex_a_triangle_index
        new_triangle_1 == Len(m1.triangles)
        new_triangle_2 == Len(m1.triangles) + 3
    IN  IF get_signed_area(point_a, point_b, candidate_point) = 0
        THEN handle_collinear(m1, new_vertex_index, vertex_a_triangle_index)
        ELSE IF get_signed_area(point_b, point_c, candidate_point) = 0
        THEN handle_collinear(m1, new_vertex_index, vertex_b_triangle_index)
        ELSE IF get_signed_area(point_c, point_a, candidate_point) = 0
        THEN handle_collinear(m1, new_vertex_index, vertex_c_triangle_index)
        ELSE CallLegalize(
               AddTriangles(m1,
                 <<AddCall(<<vertex_a_point_index, vertex_b_point_index, new_vertex_index>>,
                           half_edge_a, None, None, Update(vertex_a_triangle_index)),
                   AddCall(<<vertex_b_point_index, vertex_c_point_index, new_vertex_index>>,
                           half_edge_b, None, new_triangle_0 + 1, Create),
                   AddCall(<<vertex_c_point_index, vertex_a_point_index, new_vertex_index>>,
                           half_edge_c, new_triangle_0 + 2, new_triangle_1 + 1, Create)>>,
                 1),
               <<new_triangle_0, new_triangle_1, new_triangle_2>>)

\* step after pop: ret None is pop's None (EmptyQueueError)
StepPopped(popped) ==
    IF popped.panic \/ popped.ret = None THEN popped
    ELSE StepInsert(add_point(popped, At(popped.candidate_points, popped.ret)),
                    popped.ret, Len(popped.vertex_points))

\* mutant: the triangle at the root is read and left in the heap
step_peek(m0) ==
    StepPopped(IF Len(m0.triangle_queue) = 0 THEN Panic(m0)
               ELSE [m0 EXCEPT !.ret = At(m0.triangle_queue, 0)])

\* step up to its calls of legalize, which it leaves in calls
step(m0) == StepPopped(pop(m0))

\* the circumcircle test of legalize for the half-edge requested_triangle_index
\* whose twin is half_edge
NeedsFlip(m, requested_triangle_index, half_edge) ==
    LET requested_triangle_base_index ==
            requested_triangle_index - (requested_triangle_index % 3)
        adjacent_triangle_base_index == half_edge - (half_edge % 3)
        requested_left_edge_index ==
            requested_triangle_base_index + ((requested_triangle_index + 1) % 3)
        requested_right_edge_index ==
            requested_triangle_base_index + ((requested_triangle_index + 2) % 3)
        adjacent_left_edge_index == adjacent_triangle_base_index + ((half_edge + 2) % 3)
        vertex_0 == At(m.triangles, requested_right_edge_index)
        vertex_right == At(m.triangles, requested_triangle_index)
        vertex_left == At(m.triangles, requested_left_edge_index)
        vertex_1 == At(m.triangles, adjacent_left_edge_index)
    IN  is_point_in_circumcircle(At(m.vertex_points, vertex_1),
                                 At(m.vertex_points, vertex_0),
                                 At(m.vertex_points, vertex_right),
                                 At(m.vertex_points, vertex_left))

\* mutant: the two rewritten slots take each other's third vertex
Flip_crossed(m0, requested_triangle_index, half_edge) ==
    LET requested_triangle_base_index ==
            requested_triangle_index - (requested_triangle_index % 3)
        adjacent_triangle_base_index == half_edge - (half_edge % 3)
        requested_left_edge_index ==
            requested_triangle_base_index + ((requested_triangle_index + 1) % 3)
        requested_right_edge_index ==
            requested_triangle_base_index + ((requested_triangle_index + 2) % 3)
        adjacent_left_edge_index == adjacent_triangle_base_index + ((half_edge + 2) % 3)
        adjacent_right_edge_index == adjacent_triangle_base_index + ((half_edge + 1) % 3)
        vertex_0 == At(m0.triangles, requested_right_edge_index)
        vertex_right == At(m0.triangles, requested_triangle_index)
        vertex_left == At(m0.triangles, requested_left_edge_index)
        vertex_1 == At(m0.triangles, adjacent_left_edge_index)
        new_triangle_0 == requested_triangle_base_index
        new_triangle_1 == adjacent_triangle_base_index
    IN  CallLegalize(
          AddTriangles(remove(remove(m0, requested_triangle_base_index \div 3),
                              adjacent_triangle_base_index \div 3),
            <<AddCall(<<vertex_0, vertex_1, vertex_right>>,
                      None, At(m0.half_edges, adjacent_left_edge_index),
                      At(m0.half_edges, requested_left_edge_index),
                      Update(requested_triangle_base_index)),
              AddCall(<<vertex_1, vertex_0, vertex_left>>,
                      new_triangle_0, At(m0.half_edges, requested_right_edge_index),
                      At(m0.half_edges, adjacent_right_edge_index),
                      Update(adjacent_triangle_base_index))>>,
            1),
          <<new_triangle_0 + 1, new_triangle_1 + 2>>)

\* the flip of legalize, lines 348-373
Flip(m0, requested_triangle_index, half_edge) ==
    LET requested_triangle_base_index ==
            requested_triangle_index - (requested_triangle_index % 3)
        adjacent_triangle_base_index == half_edge - (half_edge % 3)
        requested_left_edge_index ==
            requested_triangle_base_index + ((requested_triangle_index + 1) % 3)
        requested_right_edge_index ==
            requested_triangle_base_index + ((requested_triangle_index + 2) % 3)
        adjacent_left_edge_index == adjacent_triangle_base_index + ((half_edge + 2) % 3)
        adjacent_right_edge_index == adjacent_triangle_base_index + ((half_edge + 1) % 3)
        vertex_0 == At(m0.triangles, requested_right_edge_index)
        vertex_right == At(m0.triangles, requested_triangle_index)
        vertex_left == At(m0.triangles, requested_left_edge_index)
        vertex_1 == At(m0.triangles, adjacent_left_edge_index)
        half_edge_left == At(m0.half_edges, requested_left_edge_index)
        half_edge_right == At(m0.half_edges, requested_right_edge_index)
        adjacent_half_edge_left == At(m0.half_edges, adjacent_left_edge_index)
        adjacent_half_edge_right == At(m0.half_edges, adjacent_right_edge_index)
        new_triangle_0 == requested_triangle_base_index
        new_triangle_1 == adjacent_triangle_base_index
    IN  CallLegalize(
          AddTriangles(remove(remove(m0, requested_triangle_base_index \div 3),
                              adjacent_triangle_base_index \div 3),
            <<AddCall(<<vertex_0, vertex_1, vertex_left>>,
                      None, adjacent_half_edge_left, half_edge_left,
                      Update(requested_triangle_base_index)),
              AddCall(<<vertex_1, vertex_0, vertex_right>>,
                      new_triangle_0, half_edge_right, adjacent_half_edge_right,
                      Update(adjacent_triangle_base_index))>>,
            1),
          <<new_triangle_0 + 1, new_triangle_1 + 2>>)

\* mutant: legalize never flips
legalize_never(m0, requested_triangle_index) == m0

\* one call of legalize; its two recursive calls are left in calls
legalize(m0, requested_triangle_index) ==
    IF At(m0.half_edges, requested_triangle_index) = None THEN m0
    ELSE IF ~NeedsFlip(m0, requested_triangle_index,
                       At(m0.half_edges, requested_triangle_index)) THEN m0
    ELSE Flip(m0, requested_triangle_index, At(m0.half_edges, requested_triangle_index))

\* mutant: the second seed triangle names its twin on the edge CB
Seed_wrong_edge(m0) ==
    LET initial_x == width - 1
        initial_y == height - 1
    IN  flush(AddTriangles(
                add_point(add_point(add_point(add_point(m0,
                    <<0, 0>>), <<initial_x, 0>>), <<initial_x, initial_y>>),
                    <<0, initial_y>>),
                <<AddCall(<<2, 0, 3>>, None, None, None, Create),
                  AddCall(<<0, 2, 1>>, None, 0, None, Create)>>,
                1))

\* mutant: the second seed triangle is created without its twin
Seed_unpaired(m0) ==
    LET initial_x == width - 1
        initial_y == height - 1
    IN  flush(AddTriangles(
                add_point(add_point(add_point(add_point(m0,
                    <<0, 0>>), <<initial_x, 0>>), <<initial_x, initial_y>>),
                    <<0, initial_y>>),
                <<AddCall(<<2, 0, 3>>, None, None, None, Create),
                  AddCall(<<0, 2, 1>>, None, None, None, Create)>>,
                1))

\* run up to the refinement loop: four corners, two seed triangles, flush
Seed(m0) ==
    LET initial_x == width - 1
        initial_y == height - 1
        vertex_a_point_index == 0
        vertex_b_point_index == 1
        vertex_c_point_index == 2
        vertex_d_point_index == 3
        trinagle_0 == 0
    IN  flush(AddTriangles(
                add_point(add_point(add_point(add_point(m0,
                    <<0, 0>>), <<initial_x, 0>>), <<initial_x, initial_y>>),
                    <<0, initial_y>>),
                <<AddCall(<<vertex_c_point_index, vertex_a_point_index,
                            vertex_d_point_index>>,
                          None, None, None, Create),
                  AddCall(<<vertex_a_point_index, vertex_c_point_index,
                            vertex_b_point_index>>,
                          trinagle_0, None, None, Create)>>,
                1))

(***************************************************************************)
(* The state as one record, and its write-back.                            *)
(***************************************************************************)
M ==
    [vertex_points |-> vertex_points, triangles |-> triangles,
     half_edges |-> half_edges, candidate_points |-> candidate_points,
     triangle_queue |-> triangle_queue,
     triangle_queue_indices |-> triangle_queue_indices,
     triangle_errors |-> triangle_errors,
     pending_triangle_indices |-> pending_triangle_indices,
     calls |-> legalize_stack, log |-> <<>>, panic |-> FALSE, ret |-> None]

Store(m) ==
    /\ vertex_points' = m.vertex_points
    /\ triangles' = m.triangles
    /\ half_edges' = m.half_edges
    /\ candidate_points' = m.candidate_points
    /\ triangle_queue' = m.triangle_queue
    /\ triangle_queue_indices' = m.triangle_queue_indices
    /\ triangle_errors' = m.triangle_errors
    /\ pending_triangle_indices' = m.pending_triangle_indices
    /\ legalize_stack' = m.calls
    /\ adds' = m.log

Op(name, arg, ret, kind) == [name |-> name, arg |-> arg, ret |-> ret, kind |-> kind]

(***************************************************************************)
(* Inputs.                                                                 *)
(***************************************************************************)
\* sequences of n heights of which at most k are raised, by 1 .. MaxHeight
RECURSIVE Raised(_, _)
Raised(n, k) ==
    IF n = 0 THEN {<<>>}
    ELSE {Append(s, 0) : s \in Raised(n - 1, k)}
         \cup (IF k = 0 THEN {}
               ELSE {Append(s[1], s[2]) : s \in Raised(n - 1, k - 1) \X (1..MaxHeight)})

\* the affine height grids sx * x + sy * y
Ramps(w, h) ==
    {[i \in 1..(w * h) |-> sx * ((i - 1) % w) + sy * ((i - 1) \div w)] :
        sx \in 0..MaxHeight, sy \in 0..MaxHeight}

Min4(a, b, c, d) ==
    LET ab == IF a <= b THEN a ELSE b
        cd == IF c <= d THEN c ELSE d
    IN  IF ab <= cd THEN ab ELSE cd

\* the tents: 0 on the border of the rectangle, rising linearly to an apex
\* at an interior grid point (ax, ay), scaled so that every height is an
\* integer
Tents(w, h) ==
    {[i \in 1..(w * h) |->
        LET x == (i - 1) % w
            y == (i - 1) \div w
        IN  Min4(x * (w - 1 - ax) * ay * (h - 1 - ay),
                 (w - 1 - x) * ax * ay * (h - 1 - ay),
                 y * ax * (w - 1 - ax) * (h - 1 - ay),
                 (h - 1 - y) * ax * (w - 1 - ax) * ay)] :
        ax \in 1..(w - 2), ay \in 1..(h - 2)}

\* the height arrays tried for a w x h grid whose slice has n entries: flat
\* with a few raised cells, a ramp, or a tent; all zero when the length is
\* wrong
HeightInputs(w, h, n) ==
    IF n = w * h
    THEN Raised(n, Cardinality(RaisedCells)) \cup Ramps(w, h) \cup Tents(w, h)
    ELSE {[i \in 1..n |-> 0]}

Tolerances == {<<k, 2>> : k \in 0..MaxTau2} \cup {<<1, 0>>}

EmptyObject ==
    /\ vertex_points = <<>>
    /\ triangles = <<>>
    /\ half_edges = <<>>
    /\ candidate_points = <<>>
    /\ triangle_queue = <<>>
    /\ triangle_queue_indices = <<>>
    /\ triangle_errors = <<>>
    /\ pending_triangle_indices = <<>>
    /\ legalize_stack = <<>>
    /\ adds = <<>>

Init ==
    /\ pc = "start"
    /\ result = "none"
    /\ \E w \in 2..MaxDim, h \in 2..MaxDim :
         /\ width = w
         /\ height = h
         /\ \E n \in {w * h - 1, w * h, w * h + 1} :
               height_data \in HeightInputs(w, h, n)
    /\ max_error \in Tolerances
    /\ EmptyObject
    /\ steps = 0
    /\ flips = 0
    /\ last_op = Op("init", None, None, "")

(***************************************************************************)
(* triangulate and Triangulation::run, one action per position.            *)
(***************************************************************************)
\* mutant: a slice longer than the grid is accepted
LengthOk_at_least(data_len, w, h) == data_len >= w * h

\* lib.rs: height_data.len() == width * height
LengthOk(data_len, w, h) == data_len = w * h

\* triangulate up to the call of run
Triangulate ==
    /\ pc = "start"
    /\ IF LengthOk(Len(height_data), width, height)
       THEN /\ Store(NewTriangulation)
            /\ pc' = "run"
            /\ result' = result
       ELSE /\ UNCHANGED <<mesh_vars, queue_vars, legalize_stack, adds>>
            /\ pc' = "done"
            /\ result' = "InvalidDataLengthError"
    /\ last_op' = Op("triangulate", None, None, "")
    /\ UNCHANGED <<width, height, height_data, max_error, steps, flips>>

\* run, lines 79-110
RunSeed ==
    /\ pc = "run"
    /\ LET m == Seed(M)
       IN  /\ Store(m)
           /\ pc' = IF m.panic THEN "panic" ELSE "loop"
           /\ result' = IF m.panic THEN "panic" ELSE result
    /\ last_op' = Op("seed", None, None, "")
    /\ UNCHANGED <<width, height, height_data, max_error, steps, flips>>

\* mutant: the loop also runs when the root error equals the tolerance
ExceedsTolerance_or_equal(error, tolerance) == ~ErrGT(tolerance, error)

\* `get_max_error() > &max_error`
ExceedsTolerance(error, tolerance) == ErrGT(error, tolerance)

\* the loop condition of run, lines 112-117, and the return of line 121
LoopTest ==
    /\ pc = "loop"
    /\ IF Len(triangle_errors) = 0
       THEN pc' = "done" /\ result' = "MaxErrorRetrievalError"
       ELSE IF ExceedsTolerance(get_max_error(M), max_error)
       THEN pc' = "step" /\ result' = result
       ELSE pc' = "done" /\ result' = "Ok"
    /\ last_op' = Op("test", None, None, "")
    /\ adds' = <<>>
    /\ UNCHANGED <<width, height, height_data, max_error, steps, flips,
                   mesh_vars, queue_vars, legalize_stack>>

\* which branch of step inserts the candidate of triangle t
InsertionKind(t) ==
    LET p == TrianglePoints(M, t)
        c == At(candidate_points, t)
        k == IF get_signed_area(p[1], p[2], c) = 0 THEN 0
             ELSE IF get_signed_area(p[2], p[3], c) = 0 THEN 1
             ELSE IF get_signed_area(p[3], p[1], c) = 0 THEN 2
             ELSE None
    IN  IF k = None THEN "interior"
        ELSE IF At(half_edges, 3 * t + k) = None THEN "collinear_boundary"
        ELSE "collinear_twin"

\* step, lines 161-223, up to its legalize calls
Step ==
    /\ pc = "step"
    /\ LET m == step(M)
       IN  /\ Store(m)
           /\ pc' = IF m.panic THEN "panic"
                    ELSE IF m.ret = None THEN "done" ELSE "legalize"
           /\ result' = IF m.panic THEN "panic"
                        ELSE IF m.ret = None THEN "EmptyQueueError" ELSE result
    /\ last_op' = Op("step", At(triangle_queue, 0), None,
                     InsertionKind(At(triangle_queue, 0)))
    /\ UNCHANGED <<width, height, height_data, max_error, steps, flips>>

\* what a call of legalize on half-edge requested does
LegalizeKind(requested) ==
    IF At(half_edges, requested) = None THEN "boundary"
    ELSE IF NeedsFlip(M, requested, At(half_edges, requested)) THEN "flip"
    ELSE "keep"

\* the next call of legalize, lines 316-374
Legalize ==
    /\ pc = "legalize"
    /\ legalize_stack # <<>>
    /\ LET requested == Head(legalize_stack)
           m == legalize([M EXCEPT !.calls = Tail(legalize_stack)], requested)
       IN  /\ Store(m)
           /\ pc' = IF m.panic THEN "panic" ELSE "legalize"
           /\ result' = IF m.panic THEN "panic" ELSE result
           /\ last_op' = Op("legalize", requested, None, LegalizeKind(requested))
           /\ flips' = IF Len(m.log) > 0 THEN flips + 1 ELSE flips
    /\ UNCHANGED <<width, height, height_data, max_error, steps>>

\* refine's flush after step and its legalize calls have returned
Flush ==
    /\ pc = "legalize"
    /\ legalize_stack = <<>>
    /\ LET m == flush(M)
       IN  /\ Store(m)
           /\ pc' = IF m.panic THEN "panic" ELSE "loop"
           /\ result' = IF m.panic THEN "panic" ELSE result
    /\ steps' = steps + 1
    /\ last_op' = Op("flush", None, None, "")
    /\ UNCHANGED <<width, height, height_data, max_error, flips>>

Next == Triangulate \/ RunSeed \/ LoopTest \/ Step \/ Legalize \/ Flush

Spec == Init /\ [][Next]_vars

(***************************************************************************)
(* The queue on its own: any sequence of its public operations.            *)
(***************************************************************************)
QInit ==
    /\ pc = "queue"
    /\ result = "none"
    /\ width = 0
    /\ height = 0
    /\ height_data = <<>>
    /\ max_error = ZeroError
    /\ vertex_points = <<>>
    /\ triangles = <<>>
    /\ half_edges = <<>>
    /\ candidate_points = <<>>
    /\ triangle_queue = <<>>
    /\ \E queue_len \in 1..MaxQueueLen :
          triangle_queue_indices = NewQueueIndices(queue_len)
    /\ triangle_errors = <<>>
    /\ pending_triangle_indices = <<>>
    /\ legalize_stack = <<>>
    /\ adds = <<>>
    /\ steps = 0
    /\ flips = 0
    /\ last_op = Op("new", None, None, "")

QCall(m, name, arg) ==
    /\ pc = "queue"
    /\ steps < MaxQueueOps
    /\ Store(m)
    /\ pc' = IF m.panic THEN "panic" ELSE "queue"
    /\ result' = IF m.panic THEN "panic" ELSE result
    /\ steps' = steps + 1
    /\ last_op' = Op(name, arg, m.ret,
                     IF name = "remove" THEN RemoveKind(M, arg) ELSE "")
    /\ UNCHANGED <<width, height, height_data, max_error, flips>>

InHeap(t) == \E i \in 1..Len(triangle_queue) : triangle_queue[i] = t

QPush ==
    \E t \in 0..Len(triangle_queue_indices), e \in 0..MaxQueueErr :
        /\ ~InHeap(t)
        /\ QCall(push(M, t, <<e, 1>>), "push", t)

QPop ==
    /\ pc = "queue"
    /\ QCall(pop(M), "pop", None)

QRemove ==
    \E t \in 0..(Len(triangle_queue_indices) - 1) : QCall(remove(M, t), "remove", t)

QAddPending ==
    \E t \in 0..(Len(triangle_queue_indices) - 1) :
        QCall(add_pending_triangle(M, t), "add_pending_triangle", t)

QConsume ==
    /\ pc = "queue"
    /\ QCall([M EXCEPT !.pending_triangle_indices = <<>>],
             "consume_pending_triangles", None)

QNext == QPush \/ QPop \/ QRemove \/ QAddPending \/ QConsume

QSpec == QInit /\ [][QNext]_vars

(***************************************************************************)
(* The heap on its own: push, pop and remove on a reverse index large      *)
(* enough for a heap of three levels, the pending vector left empty.       *)
(***************************************************************************)
\* heap driver: the reverse index has MaxHeapLen entries
MaxHeapLen == 6

HeapInit ==
    /\ pc = "queue"
    /\ result = "none"
    /\ width = 0
    /\ height = 0
    /\ height_data = <<>>
    /\ max_error = ZeroError
    /\ vertex_points = <<>>
    /\ triangles = <<>>
    /\ half_edges = <<>>
    /\ candidate_points = <<>>
    /\ triangle_queue = <<>>
    /\ triangle_queue_indices = NewQueueIndices(MaxHeapLen)
    /\ triangle_errors = <<>>
    /\ pending_triangle_indices = <<>>
    /\ legalize_stack = <<>>
    /\ adds = <<>>
    /\ steps = 0
    /\ flips = 0
    /\ last_op = Op("new", None, None, "")

HeapCall(m, name, arg, kind) ==
    /\ pc = "queue"
    /\ Store(m)
    /\ pc' = IF m.panic THEN "panic" ELSE "queue"
    /\ result' = IF m.panic THEN "panic" ELSE result
    /\ last_op' = Op(name, arg, m.ret, kind)
    /\ UNCHANGED <<width, height, height_data, max_error, flips, steps>>

HeapPush ==
    \E t \in 0..(Len(triangle_queue_indices) - 1), e \in 0..MaxQueueErr :
        /\ ~InHeap(t)
        /\ HeapCall(push(M, t, <<e, 1>>), "push", t, "")

HeapPop ==
    /\ pc = "queue"
    /\ HeapCall(pop(M), "pop", None, "")

HeapRemove ==
    \E t \in 0..(Len(triangle_queue_indices) - 1) :
        HeapCall(remove(M, t), "remove", t, RemoveKind(M, t))

HeapNext == HeapPush \/ HeapPop \/ HeapRemove

HeapSpec == HeapInit /\ [][HeapNext]_vars

(***************************************************************************)
(* find_candidate on its own: one triangle of positive signed area over a  *)
(* height grid, rasterized once.                                           *)
(***************************************************************************)
\* the cliffs: height 0 left of column k, MaxHeight from column k on
Cliffs(w, h) ==
    {[i \in 1..(w * h) |-> IF (i - 1) % w >= k THEN MaxHeight ELSE 0] : k \in 1..(w - 1)}

\* the height arrays a triangle is rasterized over: flat with one raised
\* cell, a ramp, a tent or a cliff
RasterHeights(w, h) ==
    Raised(w * h, 1) \cup Ramps(w, h) \cup Tents(w, h) \cup Cliffs(w, h)

RasterInit ==
    /\ pc = "raster"
    /\ result = "none"
    /\ \E w \in 2..MaxDim, h \in 2..MaxDim :
         /\ width = w
         /\ height = h
         /\ height_data \in RasterHeights(w, h)
         /\ \E a, b, c \in (0..(w - 1)) \X (0..(h - 1)) :
               /\ get_signed_area(a, b, c) > 0
               /\ vertex_points = <<a, b, c>>
    /\ max_error = ZeroError
    /\ triangles = <<0, 1, 2>>
    /\ half_edges = <<None, None, None>>
    /\ candidate_points = <<<<0, 0>>>>
    /\ triangle_queue = <<>>
    /\ triangle_queue_indices = NewQueueIndices(1)
    /\ triangle_errors = <<>>
    /\ pending_triangle_indices = <<>>
    /\ legalize_stack = <<>>
    /\ adds = <<>>
    /\ steps = 0
    /\ flips = 0
    /\ last_op = Op("new", None, None, "")

\* find_candidate(0); last_op keeps what the rasterization computed
FindCandidate ==
    /\ pc = "raster"
    /\ Store(find_candidate(M, 0))
    /\ pc' = "rastered"
    /\ last_op' = Op("find_candidate", 0,
                     Rasterize(vertex_points[1], vertex_points[2], vertex_points[3]), "")
    /\ UNCHANGED <<result, width, height, height_data, max_error, steps, flips>>

RasterNext == FindCandidate

RasterSpec == RasterInit /\ [][RasterNext]_vars

(***************************************************************************)
(* The circumcircle test in the width of isize.  The inputs are multiples  *)
(* of Unit, so every value of the computation is k * Unit^d for a small k  *)
(* and a degree d of 1 to 4; a value is the record of k, d and whether an  *)
(* operation on the way to it left the range of isize.  The value kept is  *)
(* the wrapped one, as a build without overflow checks computes it.        *)
(***************************************************************************)
\* width-aware driver: coordinates are 0, 2^(CoordinateBits-1), 2^CoordinateBits
CoordinateBits == 20

\* the width of isize on a 64-bit target
IsizeBits == 64

Unit == 2 ^ (CoordinateBits - 1)

\* k * Unit^d reduced to the two's complement range of isize, as a multiple
\* of Unit^d
WrapIsize(k, d) ==
    LET e == (CoordinateBits - 1) * d
    IN  IF e >= IsizeBits THEN 0
        ELSE IF IsizeBits - e > 30 THEN k
        ELSE LET m == 2 ^ (IsizeBits - e)
             IN  ((k + (m \div 2)) % m) - (m \div 2)

IsizeValue(k, d, overflow) ==
    [k |-> WrapIsize(k, d), d |-> d, overflow |-> overflow \/ WrapIsize(k, d) # k]

\* `coordinate as isize`
AsIsize(coordinate) == [k |-> coordinate \div Unit, d |-> 1, overflow |-> FALSE]

IsizeMul(x, y) == IsizeValue(x.k * y.k, x.d + y.d, x.overflow \/ y.overflow)

IsizeSub(x, y) == IsizeValue(x.k - y.k, x.d, x.overflow \/ y.overflow)

IsizeAdd(x, y) == IsizeValue(x.k + y.k, x.d, x.overflow \/ y.overflow)

\* is_point_in_circumcircle operation by operation in isize: ret is the
\* boolean of a build that wraps, overflow says whether a build with overflow
\* checks panics
is_point_in_circumcircle_isize(test_point, point_a, point_b, point_c) ==
    LET delta_x_a == IsizeSub(AsIsize(point_a[1]), AsIsize(test_point[1]))
        delta_y_a == IsizeSub(AsIsize(point_a[2]), AsIsize(test_point[2]))
        delta_x_b == IsizeSub(AsIsize(point_b[1]), AsIsize(test_point[1]))
        delta_y_b == IsizeSub(AsIsize(point_b[2]), AsIsize(test_point[2]))
        delta_x_c == IsizeSub(AsIsize(point_c[1]), AsIsize(test_point[1]))
        delta_y_c == IsizeSub(AsIsize(point_c[2]), AsIsize(test_point[2]))
        square_distance_a == IsizeAdd(IsizeMul(delta_x_a, delta_x_a),
                                      IsizeMul(delta_y_a, delta_y_a))
        square_distance_b == IsizeAdd(IsizeMul(delta_x_b, delta_x_b),
                                      IsizeMul(delta_y_b, delta_y_b))
        square_distance_c == IsizeAdd(IsizeMul(delta_x_c, delta_x_c),
                                      IsizeMul(delta_y_c, delta_y_c))
        determinant ==
            IsizeAdd(
              IsizeSub(
                IsizeMul(delta_x_a, IsizeSub(IsizeMul(delta_y_b, square_distance_c),
                                             IsizeMul(square_distance_b, delta_y_c))),
                IsizeMul(delta_y_a, IsizeSub(IsizeMul(delta_x_b, square_distance_c),
                                             IsizeMul(square_distance_b, delta_x_c)))),
              IsizeMul(square_distance_a, IsizeSub(IsizeMul(delta_x_b, delta_y_c),
                                                   IsizeMul(delta_y_b, delta_x_c))))
    IN  [ret |-> determinant.k < 0, overflow |-> determinant.overflow]

\* the coordinates the calls are made with
WideCoordinates == {0, Unit, 2 * Unit}

IsizeInit ==
    /\ pc = "isize"
    /\ result = "none"
    /\ width = 2 * Unit + 1
    /\ height = 2 * Unit + 1
    /\ \E q, a, b, c \in WideCoordinates \X WideCoordinates :
          /\ get_signed_area(<<a[1] \div Unit, a[2] \div Unit>>,
                             <<b[1] \div Unit, b[2] \div Unit>>,
                             <<c[1] \div Unit, c[2] \div Unit>>) > 0
          /\ vertex_points = <<q, a, b, c>>
    /\ height_data = <<>>
    /\ max_error = ZeroError
    /\ triangles = <<>>
    /\ half_edges = <<>>
    /\ candidate_points = <<>>
    /\ triangle_queue = <<>>
    /\ triangle_queue_indices = <<>>
    /\ triangle_errors = <<>>
    /\ pending_triangle_indices = <<>>
    /\ legalize_stack = <<>>
    /\ adds = <<>>
    /\ steps = 0
    /\ flips = 0
    /\ last_op = Op("new", None, None, "")

\* the call in a build without overflow checks: the arithmetic wraps
InCircumcircleWrapping ==
    /\ pc = "isize"
    /\ pc' = "isize_done"
    /\ LET r == is_point_in_circumcircle_isize(vertex_points[1], vertex_points[2],
                                               vertex_points[3], vertex_points[4])
       IN  last_op' = Op("is_point_in_circumcircle", None, r.ret,
                         IF r.overflow THEN "wrapped" ELSE "exact")
    /\ UNCHANGED <<result, width, height, height_data, max_error, steps, flips,
                   mesh_vars, queue_vars, legalize_stack, adds>>

\* the call in a build with overflow checks: the first overflow panics
InCircumcircleChecked ==
    /\ pc = "isize"
    /\ LET r == is_point_in_circumcircle_isize(vertex_points[1], vertex_points[2],
                                               vertex_points[3], vertex_points[4])
       IN  /\ pc' = IF r.overflow THEN "panic" ELSE "isize_done"
           /\ result' = IF r.overflow THEN "panic" ELSE result
           /\ last_op' = Op("is_point_in_circumcircle", None,
                            IF r.overflow THEN None ELSE r.ret,
                            IF r.overflow THEN "overflow" ELSE "checked")
    /\ UNCHANGED <<width, height, height_data, max_error, steps, flips,
                   mesh_vars, queue_vars, legalize_stack, adds>>

IsizeNext == InCircumcircleWrapping \/ InCircumcircleChecked

IsizeSpec == IsizeInit /\ [][IsizeNext]_vars

(***************************************************************************)
(* The circumcircle test on its own: one call of is_point_in_circumcircle  *)
(* on a test point and a triangle of positive signed area, all four grid   *)
(* points; vertex_points holds <<test_point, point_a, point_b, point_c>>.  *)
(***************************************************************************)
CircleInit ==
    /\ pc = "circle"
    /\ result = "none"
    /\ \E w \in 2..MaxDim, h \in 2..MaxDim :
         /\ width = w
         /\ height = h
         /\ \E q, a, b, c \in (0..(w - 1)) \X (0..(h - 1)) :
               /\ get_signed_area(a, b, c) > 0
               /\ vertex_points = <<q, a, b, c>>
    /\ height_data = <<>>
    /\ max_error = ZeroError
    /\ triangles = <<>>
    /\ half_edges = <<>>
    /\ candidate_points = <<>>
    /\ triangle_queue = <<>>
    /\ triangle_queue_indices = <<>>
    /\ triangle_errors = <<>>
    /\ pending_triangle_indices = <<>>
    /\ legalize_stack = <<>>
    /\ adds = <<>>
    /\ steps = 0
    /\ flips = 0
    /\ last_op = Op("new", None, None, "")

\* the call; last_op keeps the boolean it returns
InCircumcircle ==
    /\ pc = "circle"
    /\ pc' = "circled"
    /\ last_op' = Op("is_point_in_circumcircle", None,
                     is_point_in_circumcircle(vertex_points[1], vertex_points[2],
                                              vertex_points[3], vertex_points[4]), "")
    /\ UNCHANGED <<result, width, height, height_data, max_error, steps, flips,
                   mesh_vars, queue_vars, legalize_stack, adds>>

CircleNext == InCircumcircle

CircleSpec == CircleInit /\ [][CircleNext]_vars

(***************************************************************************)
(* Vocabulary of the properties.                                           *)
(***************************************************************************)
NumTriangles == Len(triangles) \div 3

Slots == 0..(NumTriangles - 1)

GridPoints == {<<x, y>> : x \in 0..(width - 1), y \in 0..(height - 1)}

Corners == <<<<0, 0>>, <<width - 1, 0>>, <<width - 1, height - 1>>, <<0, height - 1>>>>

SeedTriangles == <<2, 0, 3, 0, 2, 1>>

\* the points of slot t of a triangles vector
PointsOf(triangles_seq, t) ==
    <<At(vertex_points, At(triangles_seq, 3 * t)),
      At(vertex_points, At(triangles_seq, 3 * t + 1)),
      At(vertex_points, At(triangles_seq, 3 * t + 2))>>

SlotPoints(t) == PointsOf(triangles, t)

\* q lies in the closed triangle p (inside or on an edge)
Contains(p, q) ==
    /\ get_signed_area(p[2], p[3], q) >= 0
    /\ get_signed_area(p[3], p[1], q) >= 0
    /\ get_signed_area(p[1], p[2], q) >= 0

\* | plane of triangle p at q  -  height at q |, as numerator over denominator
PlaneError(p, q) ==
    LET area == get_signed_area(p[1], p[2], p[3])
        z_num == height_at(p[1]) * get_signed_area(p[2], p[3], q)
                 + height_at(p[2]) * get_signed_area(p[3], p[1], q)
                 + height_at(p[3]) * get_signed_area(p[1], p[2], q)
    IN  <<Abs(z_num - height_at(q) * area), Abs(area)>>

\* the error queued for triangle t (t is in the heap)
QueuedError(t) == At(triangle_errors, At(triangle_queue_indices, t))

Queued(t) == \E i \in 1..Len(triangle_queue) : triangle_queue[i] = t

ReturnedOk == pc = "done" /\ result = "Ok"

\* between two refinement steps: after the seeding flush or after a refine()
AtRest == pc = "loop" \/ ReturnedOk

Sq(a) == a * a

\* q lies strictly inside the circle through a, b, c (any orientation), by
\* comparing squared distances to the circumcentre (ux, uy) / d
StrictlyInsideCircle(q, a, b, c) ==
    LET d == 2 * (a[1] * (b[2] - c[2]) + b[1] * (c[2] - a[2]) + c[1] * (a[2] - b[2]))
        na == Sq(a[1]) + Sq(a[2])
        nb == Sq(b[1]) + Sq(b[2])
        nc == Sq(c[1]) + Sq(c[2])
        ux == na * (b[2] - c[2]) + nb * (c[2] - a[2]) + nc * (a[2] - b[2])
        uy == na * (c[1] - b[1]) + nb * (a[1] - c[1]) + nc * (b[1] - a[1])
    IN  /\ d # 0
        /\ Sq(d * q[1] - ux) + Sq(d * q[2] - uy) < Sq(d * a[1] - ux) + Sq(d * a[2] - uy)

RECURSIVE SumAreas(_)
SumAreas(n) ==
    IF n = 0 THEN 0
    ELSE SumAreas(n - 1)
         + get_signed_area(SlotPoints(n - 1)[1], SlotPoints(n - 1)[2], SlotPoints(n - 1)[3])

\* the rectangle on the half-unit lattice: cell corners, edge midpoints, centres
HalfPoints == {<<x, y>> : x \in 0..(2 * (width - 1)), y \in 0..(2 * (height - 1))}

Twice(p) == <<<<2 * p[1][1], 2 * p[1][2]>>, <<2 * p[2][1], 2 * p[2][2]>>,
              <<2 * p[3][1], 2 * p[3][2]>>>>

StrictlyContains(p, q) ==
    /\ get_signed_area(p[2], p[3], q) > 0
    /\ get_signed_area(p[3], p[1], q) > 0
    /\ get_signed_area(p[1], p[2], q) > 0

IsPrefix(s1, s2) == Len(s1) <= Len(s2) /\ SubSeq(s2, 1, Len(s1)) = s1

(***************************************************************************)
(* C1: whenever triangulate returns Ok, the error at the heap root is at   *)
(* most the tolerance, and it is the maximum of the errors queued for the  *)
(* triangles of the returned mesh (every slot is queued).                  *)
(***************************************************************************)
C1_RootErrorWithinTolerance ==
    ReturnedOk =>
        /\ Len(triangle_errors) > 0
        /\ ~ErrGT(At(triangle_errors, 0), max_error)
        /\ \A t \in Slots :
              /\ Queued(t)
              /\ ~ErrGT(QueuedError(t), At(triangle_errors, 0))

C1_Witness ==
    /\ ReturnedOk
    /\ steps > 0
    /\ \E t \in Slots : ErrGT(QueuedError(t), ZeroError)
    /\ \E t \in Slots : ErrGT(At(triangle_errors, 0), QueuedError(t))

(***************************************************************************)
(* C2: whenever triangulate returns Ok, for every grid point and every     *)
(* triangle of the mesh that contains it (inside or on an edge) the plane  *)
(* through the triangle's vertices differs from the height there by at     *)
(* most the triangle's queued error, which is at most the tolerance.       *)
(***************************************************************************)
C2_PlaneWithinQueuedError ==
    ReturnedOk =>
        \A t \in Slots : \A q \in GridPoints :
            Contains(SlotPoints(t), q) =>
                /\ ~ErrGT(PlaneError(SlotPoints(t), q), QueuedError(t))
                /\ ~ErrGT(QueuedError(t), max_error)

C2_Witness ==
    /\ ReturnedOk
    /\ steps > 0
    /\ \E t \in Slots : \E q \in GridPoints :
          /\ StrictlyContains(SlotPoints(t), q)
          /\ ErrGT(PlaneError(SlotPoints(t), q), ZeroError)
          /\ PlaneError(SlotPoints(t), q) = QueuedError(t)

(***************************************************************************)
(* C3: after the seeding flush and after every refinement step every       *)
(* interior edge is locally Delaunay: for a half-edge p with twin q, the   *)
(* vertex of q's triangle off the shared edge is not strictly inside the   *)
(* circumcircle of p's triangle.                                           *)
(***************************************************************************)
C3_LocallyDelaunay ==
    AtRest =>
        \A p \in 0..(Len(half_edges) - 1) :
            At(half_edges, p) # None =>
                LET q == At(half_edges, p)
                    opposite == At(vertex_points,
                                   At(triangles, (q - (q % 3)) + ((q + 2) % 3)))
                    owner == SlotPoints(p \div 3)
                IN  ~StrictlyInsideCircle(opposite, owner[1], owner[2], owner[3])

C3_Witness ==
    /\ pc = "loop"
    /\ steps > 1
    /\ flips > 1
    /\ \E p \in 0..(Len(half_edges) - 1) : At(half_edges, p) # None

(***************************************************************************)
(* C4: after seeding and after every add_triangle call of an insertion, a  *)
(* collinear split or a flip, every triangle slot has positive signed      *)
(* area.                                                                   *)
(***************************************************************************)
C4_PositiveOrientation ==
    /\ \A t \in Slots :
          get_signed_area(SlotPoints(t)[1], SlotPoints(t)[2], SlotPoints(t)[3]) > 0
    /\ \A k \in 1..Len(adds) : \A t \in 0..((Len(adds[k].triangles) \div 3) - 1) :
          LET p == PointsOf(adds[k].triangles, t)
          IN  get_signed_area(p[1], p[2], p[3]) > 0

C4_Witness ==
    /\ pc = "legalize"
    /\ last_op.name = "legalize"
    /\ last_op.kind = "flip"
    /\ Len(adds) = 2
    /\ steps > 0

(***************************************************************************)
(* C5: after seeding and after every refinement step the signed areas of   *)
(* the slots sum to 2 (W-1)(H-1), and the slots tile the rectangle: every  *)
(* point of the half-unit lattice lies in a slot and strictly inside at    *)
(* most one.                                                               *)
(***************************************************************************)
C5_SlotsTileRectangle ==
    AtRest =>
        /\ SumAreas(NumTriangles) = 2 * (width - 1) * (height - 1)
        /\ \A q \in HalfPoints :
              /\ \E t \in Slots : Contains(Twice(SlotPoints(t)), q)
              /\ \A t1, t2 \in Slots :
                    (StrictlyContains(Twice(SlotPoints(t1)), q)
                       /\ StrictlyContains(Twice(SlotPoints(t2)), q)) => t1 = t2

C5_Witness ==
    /\ pc = "loop"
    /\ steps > 1
    /\ flips > 0
    /\ NumTriangles > 3

(***************************************************************************)
(* C6: the vertex table holds pairwise distinct grid points, it starts     *)
(* with the four corners in the order (0,0), (W-1,0), (W-1,H-1), (0,H-1),  *)
(* and an entry once appended is never changed or removed.                 *)
(***************************************************************************)
VertexTableOk ==
    /\ \A i \in 1..Len(vertex_points) : vertex_points[i] \in GridPoints
    /\ \A i, j \in 1..Len(vertex_points) :
          vertex_points[i] = vertex_points[j] => i = j
    /\ Len(vertex_points) > 0 => IsPrefix(Corners, vertex_points)

C6_VertexTable ==
    /\ []VertexTableOk
    /\ [][IsPrefix(vertex_points, vertex_points')]_vars

C6_Witness ==
    /\ Len(vertex_points) > 5
    /\ pc = "loop"

(***************************************************************************)
(* C7: triangulate returns InvalidDataLengthError exactly when the length  *)
(* of height_data differs from width * height, and then before any vertex, *)
(* triangle, half-edge or queue state exists.                              *)
(***************************************************************************)
C7_InvalidLength ==
    /\ (pc # "start" /\ Len(height_data) # width * height) =>
          (pc = "done" /\ result = "InvalidDataLengthError" /\ EmptyObject)
    /\ Len(height_data) = width * height => result # "InvalidDataLengthError"

C7_Witness ==
    /\ result = "InvalidDataLengthError"
    /\ Len(height_data) = width * height + 1

(***************************************************************************)
(* C8: pop() on an empty heap returns none and leaves the heap, the        *)
(* reverse index and the pending set unchanged.                            *)
(***************************************************************************)
C8_PopOnEmptyReturnsNone ==
    [][(pc = "queue" /\ Len(triangle_queue) = 0 /\ last_op'.name = "pop") =>
          (pc' = "queue" /\ last_op'.ret = None /\ UNCHANGED queue_vars)]_vars

(***************************************************************************)
(* C9: for W = H = 2 and any four heights triangulate completes with the   *)
(* four corners as vertex table and the triangles (2,0,3), (0,2,1), both   *)
(* queued with error 0, and no refinement step runs.                       *)
(***************************************************************************)
C9_TwoByTwo ==
    (width = 2 /\ height = 2 /\ Len(height_data) = 4 /\ pc \in {"done", "panic"}) =>
        /\ result = "Ok"
        /\ steps = 0
        /\ vertex_points = Corners
        /\ triangles = SeedTriangles
        /\ triangle_errors = <<ZeroError, ZeroError>>

(***************************************************************************)
(* C10: if neither seed triangle has an error above the tolerance,         *)
(* triangulate performs no refinement step and returns the four corners    *)
(* and the two seed triangles.                                             *)
(***************************************************************************)
SeedsWithinTolerance ==
    /\ ~ErrGT(Rasterize(Corners[3], Corners[1], Corners[4]).max_error, max_error)
    /\ ~ErrGT(Rasterize(Corners[1], Corners[3], Corners[2]).max_error, max_error)

C10_NoRefinement ==
    (Len(height_data) = width * height /\ SeedsWithinTolerance
       /\ pc \in {"done", "panic"}) =>
        /\ result = "Ok"
        /\ steps = 0
        /\ vertex_points = Corners
        /\ triangles = SeedTriangles

(***************************************************************************)
(* C11: for W = H = 3 with all heights 0 except the centre (1,1), whose    *)
(* height exceeds the tolerance, triangulate completes, (1,1) is the fifth *)
(* vertex, the mesh has between 4 and 8 triangles and the plane of every   *)
(* triangle is within the tolerance of the height at every grid point it   *)
(* contains.                                                               *)
(***************************************************************************)
CentreBump ==
    /\ width = 3
    /\ height = 3
    /\ Len(height_data) = 9
    /\ \A i \in 1..9 : i # 5 => height_data[i] = 0
    /\ ErrGT(<<height_data[5], 1>>, max_error)

C11_CentreBump ==
    (CentreBump /\ pc \in {"done", "panic"}) =>
        /\ result = "Ok"
        /\ Len(vertex_points) >= 5
        /\ vertex_points[5] = <<1, 1>>
        /\ NumTriangles \in 4..8
        /\ \A t \in Slots : \A q \in GridPoints :
              Contains(SlotPoints(t), q) =>
                 ~ErrGT(PlaneError(SlotPoints(t), q), max_error)

(***************************************************************************)
(* C12: with tolerance 0 on a grid that has a point off the planes of the  *)
(* two seed triangles, the returned vertex table has W * H entries (every  *)
(* grid point has become a vertex).                                        *)
(***************************************************************************)
OffCornerPlane ==
    /\ Len(height_data) = width * height
    /\ \E q \in GridPoints :
          \/ /\ Contains(<<Corners[3], Corners[1], Corners[4]>>, q)
             /\ ErrGT(PlaneError(<<Corners[3], Corners[1], Corners[4]>>, q), ZeroError)
          \/ /\ Contains(<<Corners[1], Corners[3], Corners[2]>>, q)
             /\ ErrGT(PlaneError(<<Corners[1], Corners[3], Corners[2]>>, q), ZeroError)

IsVertex(q) == \E i \in 1..Len(vertex_points) : vertex_points[i] = q

\* the tolerance is 0
ZeroTolerance == max_error[1] = 0 /\ max_error[2] > 0

C12_EveryGridPointAVertex ==
    (ReturnedOk /\ ZeroTolerance /\ OffCornerPlane) =>
        /\ Len(vertex_points) = width * height
        /\ \A q \in GridPoints : IsVertex(q)

(***************************************************************************)
(* C12 as amended: with tolerance 0 on such a grid, when triangulate       *)
(* returns Ok at least one point has been inserted after the corners, and  *)
(* the mesh is exact at every grid point: each grid point lies in a        *)
(* triangle, and the plane of every triangle that contains it passes       *)
(* through its height.  The vertex table has at most W * H entries.        *)
(***************************************************************************)
C12_ExactAtEveryGridPoint ==
    (ReturnedOk /\ ZeroTolerance /\ OffCornerPlane) =>
        /\ Len(vertex_points) > 4
        /\ Len(vertex_points) <= width * height
        /\ \A q \in GridPoints :
              /\ \E t \in Slots : Contains(SlotPoints(t), q)
              /\ \A t \in Slots :
                    Contains(SlotPoints(t), q) =>
                        ~ErrGT(PlaneError(SlotPoints(t), q), ZeroError)

C12_Witness ==
    /\ ReturnedOk
    /\ ZeroTolerance
    /\ OffCornerPlane
    /\ steps > 0
    /\ Len(vertex_points) < width * height
    /\ \E q \in GridPoints : ~IsVertex(q)

(***************************************************************************)
(* C13: for every valid input no run fails on an access to the reverse     *)
(* index: every triangle slot the mesh has created has an entry in it.     *)
(***************************************************************************)
C13_ReverseIndexCoversSlots ==
    (Len(height_data) = width * height /\ pc \notin {"start", "run"}) =>
        /\ result # "panic"
        /\ \A t \in Slots : t < Len(triangle_queue_indices)

(***************************************************************************)
(* C14: after any sequence of push, pop and remove, the reverse index of a *)
(* triangle in the heap is the position that holds it, the reverse index   *)
(* of every other triangle is none, and no triangle is in the heap twice.  *)
(***************************************************************************)
C14_ReverseIndex ==
    /\ Len(triangle_errors) = Len(triangle_queue)
    /\ \A i, j \in 1..Len(triangle_queue) :
          triangle_queue[i] = triangle_queue[j] => i = j
    /\ \A i \in 1..Len(triangle_queue) :
          /\ triangle_queue[i] \in 0..(Len(triangle_queue_indices) - 1)
          /\ At(triangle_queue_indices, triangle_queue[i]) = i - 1
    /\ \A t \in 0..(Len(triangle_queue_indices) - 1) :
          ~InHeap(t) => At(triangle_queue_indices, t) = None

C14_Witness ==
    /\ pc = "queue"
    /\ last_op.name = "remove"
    /\ last_op.kind = "up"
    /\ Len(triangle_queue) = 5
    /\ At(triangle_queue_indices, last_op.arg) = None

(***************************************************************************)
(* C15: after any sequence of push, pop and remove no heap entry has a     *)
(* larger error than its parent, so get_max_error is the maximum of the    *)
(* queued errors; and a pop on a non-empty heap removes and returns a      *)
(* triangle whose error is that maximum, leaving the other entries.        *)
(***************************************************************************)
HeapOrdered ==
    /\ \A k \in 2..Len(triangle_errors) :
          ~ErrGT(triangle_errors[k], triangle_errors[k \div 2])
    /\ \A k \in 1..Len(triangle_errors) :
          ~ErrGT(triangle_errors[k], get_max_error(M))

\* the (triangle, error) entries of the heap
HeapEntries ==
    {<<triangle_queue[i], triangle_errors[i]>> : i \in 1..Len(triangle_queue)}

C15_MaxHeap ==
    /\ []HeapOrdered
    /\ [][(Len(triangle_queue) > 0 /\ last_op'.name = "pop") =>
            /\ pc' = "queue"
            /\ InHeap(last_op'.ret)
            /\ \A k \in 1..Len(triangle_errors) :
                  ~ErrGT(triangle_errors[k], QueuedError(last_op'.ret))
            /\ HeapEntries' =
                  HeapEntries \ {<<last_op'.ret, QueuedError(last_op'.ret)>>}]_vars

C15_Witness ==
    /\ pc = "queue"
    /\ last_op.name = "pop"
    /\ Len(triangle_queue) = 5
    /\ ErrGT(triangle_errors[1], triangle_errors[2])
    /\ ErrGT(triangle_errors[3], triangle_errors[4])

(***************************************************************************)
(* C16: remove(t) does one of three things.  If t is in the heap, t leaves *)
(* the heap and the other entries and the pending vector are unchanged.    *)
(* If t is not in the heap but in the pending vector, one occurrence of t  *)
(* leaves the pending vector and the heap and the reverse index are        *)
(* unchanged.  If t is in neither, nothing changes.                        *)
(***************************************************************************)
\* how often t occurs in the sequence s
Count(s, t) == Cardinality({k \in 1..Len(s) : s[k] = t})

InPending(t) == Count(pending_triangle_indices, t) > 0

C16_RemoveEffect ==
    [][(pc = "queue" /\ last_op'.name = "remove") =>
         LET t == last_op'.arg
         IN  /\ pc' = "queue"
             /\ InHeap(t) =>
                  /\ HeapEntries' = HeapEntries \ {<<t, QueuedError(t)>>}
                  /\ Len(triangle_queue') = Len(triangle_queue) - 1
                  /\ pending_triangle_indices' = pending_triangle_indices
             /\ (~InHeap(t) /\ InPending(t)) =>
                  /\ Len(pending_triangle_indices') = Len(pending_triangle_indices) - 1
                  /\ \A u \in 0..(Len(triangle_queue_indices) - 1) :
                        Count(pending_triangle_indices', u) =
                           Count(pending_triangle_indices, u) - (IF u = t THEN 1 ELSE 0)
                  /\ UNCHANGED <<triangle_queue, triangle_errors, triangle_queue_indices>>
             /\ (~InHeap(t) /\ ~InPending(t)) => UNCHANGED queue_vars]_vars

C16_Witness ==
    /\ pc = "queue"
    /\ last_op.name = "remove"
    /\ last_op.kind = "pending"
    /\ InPending(last_op.arg)
    /\ Len(triangle_queue) > 1

(***************************************************************************)
(* C17: in every state of a run, and between the add_triangle calls of an  *)
(* insertion, a collinear split or a flip, no triangle is in the heap and  *)
(* in the pending vector at once, and no triangle is pending twice.        *)
(***************************************************************************)
HeapOrPending(queue_seq, pending_seq) ==
    /\ \A i \in 1..Len(queue_seq) : \A j \in 1..Len(pending_seq) :
          queue_seq[i] # pending_seq[j]
    /\ \A i, j \in 1..Len(pending_seq) : pending_seq[i] = pending_seq[j] => i = j

C17_HeapOrPending ==
    /\ HeapOrPending(triangle_queue, pending_triangle_indices)
    /\ \A k \in 1..Len(adds) :
          HeapOrPending(adds[k].triangle_queue, adds[k].pending_triangle_indices)

C17_Witness ==
    /\ pc = "legalize"
    /\ last_op.kind = "flip"
    /\ Len(adds) = 2
    /\ Len(adds[1].triangle_queue) > 0
    /\ Len(adds[1].pending_triangle_indices) > 2
    /\ Len(pending_triangle_indices) > Len(adds[1].pending_triangle_indices)

(***************************************************************************)
(* C18: after the seeding flush and after every refinement step the        *)
(* pending vector is empty and the heap holds every triangle slot exactly  *)
(* once.                                                                   *)
(***************************************************************************)
C18_AllSlotsQueued ==
    AtRest =>
        /\ pending_triangle_indices = <<>>
        /\ Len(triangle_queue) = NumTriangles
        /\ \A t \in Slots : Cardinality({i \in 1..Len(triangle_queue) :
                                            triangle_queue[i] = t}) = 1

C18_Witness ==
    /\ pc = "loop"
    /\ last_op.name = "flush"
    /\ steps > 1
    /\ NumTriangles > 3
    /\ Len(triangle_queue) = NumTriangles

(***************************************************************************)
(* C19: whenever the loop is about to pop, every heap entry carries the    *)
(* error and the candidate that rasterizing the current vertices of its    *)
(* slot yields: no grid point of the slot is further from its plane than   *)
(* the queued error, and a positive queued error is the distance at the    *)
(* candidate, a grid point of the slot.                                    *)
(***************************************************************************)
SameError(e1, e2) == ~ErrGT(e1, e2) /\ ~ErrGT(e2, e1)

C19_NoStaleEntry ==
    pc = "step" =>
        \A i \in 1..Len(triangle_queue) :
            LET t == triangle_queue[i]
                r == Rasterize(SlotPoints(t)[1], SlotPoints(t)[2], SlotPoints(t)[3])
            IN  /\ triangle_errors[i] = r.max_error
                /\ At(candidate_points, t) = r.max_error_point
                /\ \A q \in GridPoints :
                      Contains(SlotPoints(t), q) =>
                          ~ErrGT(PlaneError(SlotPoints(t), q), triangle_errors[i])
                /\ ErrGT(triangle_errors[i], ZeroError) =>
                      /\ At(candidate_points, t) \in GridPoints
                      /\ Contains(SlotPoints(t), At(candidate_points, t))
                      /\ SameError(PlaneError(SlotPoints(t), At(candidate_points, t)),
                                   triangle_errors[i])

C19_Witness ==
    /\ pc = "step"
    /\ steps > 0
    /\ flips > 0
    /\ Len(triangle_queue) > 2
    /\ ErrGT(triangle_errors[2], ZeroError)

(***************************************************************************)
(* C20: after seeding and after every refinement step the half-edge        *)
(* pairing is an involution between different triangles that joins the    *)
(* same edge in opposite directions.                                       *)
(***************************************************************************)
\* the directed edge at position p runs from EdgeStart(p) to EdgeEnd(p)
EdgeStart(p) == At(triangles, p)

EdgeEnd(p) == At(triangles, (p - (p % 3)) + ((p + 1) % 3))

C20_HalfEdgePairing ==
    AtRest =>
        /\ Len(half_edges) = Len(triangles)
        /\ \A p \in 0..(Len(half_edges) - 1) :
              At(half_edges, p) # None =>
                  LET twin == At(half_edges, p)
                  IN  /\ twin \in 0..(Len(half_edges) - 1)
                      /\ At(half_edges, twin) = p
                      /\ twin \div 3 # p \div 3
                      /\ EdgeStart(p) = EdgeEnd(twin)
                      /\ EdgeEnd(p) = EdgeStart(twin)

C20_Witness ==
    /\ pc = "loop"
    /\ steps > 1
    /\ flips > 0
    /\ Cardinality({p \in 0..(Len(half_edges) - 1) : At(half_edges, p) # None}) > 5

(***************************************************************************)
(* C21: the half-edge at position p is the edge opposite the vertex stored *)
(* at p: for every position p with a twin, the points at next(p) and       *)
(* prev(p) are the points at next(twin) and prev(twin).                    *)
(***************************************************************************)
NextPosition(p) == (p - (p % 3)) + ((p + 1) % 3)

PrevPosition(p) == (p - (p % 3)) + ((p + 2) % 3)

PointAt(p) == At(vertex_points, At(triangles, p))

\* the mesh is whole: not inside a step, a flip or a flush
MeshWhole == pc \in {"loop", "step", "legalize"} \/ ReturnedOk

C21_EdgeOppositeOwnVertex ==
    MeshWhole =>
        \A p \in 0..(Len(half_edges) - 1) :
            At(half_edges, p) # None =>
                {PointAt(NextPosition(p)), PointAt(PrevPosition(p))}
                  = {PointAt(NextPosition(At(half_edges, p))),
                     PointAt(PrevPosition(At(half_edges, p)))}

(***************************************************************************)
(* C21 as amended: the half-edge at position p is the edge from the vertex *)
(* stored at p to the vertex stored at next(p), that is, the edge opposite *)
(* the vertex stored at prev(p): for every position p with a twin, the     *)
(* points at p and next(p) are the points at twin and next(twin).          *)
(***************************************************************************)
C21_EdgeFromOwnVertex ==
    MeshWhole =>
        \A p \in 0..(Len(half_edges) - 1) :
            At(half_edges, p) # None =>
                /\ {PointAt(p), PointAt(NextPosition(p))}
                     = {PointAt(At(half_edges, p)),
                        PointAt(NextPosition(At(half_edges, p)))}
                /\ PointAt(PrevPosition(p)) # PointAt(PrevPosition(At(half_edges, p)))

C21_Witness ==
    /\ pc = "legalize"
    /\ last_op.name = "step"
    /\ last_op.kind = "collinear_twin"
    /\ steps > 0
    /\ Cardinality({p \in 0..(Len(half_edges) - 1) : At(half_edges, p) # None}) > 7

(***************************************************************************)
(* C22: after seeding and after every refinement step a half-edge has no   *)
(* twin exactly when it lies on the outer boundary of the grid rectangle:  *)
(* both its endpoints are on the same side x = 0, x = W-1, y = 0 or        *)
(* y = H-1.                                                                *)
(***************************************************************************)
OnOuterBoundary(p) ==
    LET a == PointAt(p)
        b == PointAt(NextPosition(p))
    IN  \/ a[1] = 0 /\ b[1] = 0
        \/ a[1] = width - 1 /\ b[1] = width - 1
        \/ a[2] = 0 /\ b[2] = 0
        \/ a[2] = height - 1 /\ b[2] = height - 1

C22_NoTwinOnBoundaryOnly ==
    AtRest =>
        \A p \in 0..(Len(half_edges) - 1) :
            (At(half_edges, p) = None) <=> OnOuterBoundary(p)

C22_Witness ==
    /\ pc = "loop"
    /\ last_op.name = "flush"
    /\ steps > 1
    /\ Cardinality({p \in 0..(Len(half_edges) - 1) : At(half_edges, p) = None}) > 5
    /\ Cardinality({p \in 0..(Len(half_edges) - 1) : At(half_edges, p) # None}) > 3

(***************************************************************************)
(* C23: for a triangle of positive signed area find_candidate gives what a *)
(* scan that tests every pixel of the bounding box gives: the error pushed *)
(* is the largest distance between plane and height over the pixels whose  *)
(* three edge functions are non-negative, the candidate is the first pixel *)
(* in row-major order with that distance, no such pixel is skipped, and at *)
(* every pixel tested the running edge functions are the signed areas.     *)
(***************************************************************************)
\* the pixels of the triangle: all three edge functions non-negative
InteriorPixels == {q \in GridPoints : Contains(SlotPoints(0), q)}

\* q has the largest plane distance of the interior pixels
IsMaximal(q) ==
    /\ q \in InteriorPixels
    /\ \A r \in InteriorPixels :
          ~ErrGT(PlaneError(SlotPoints(0), r), PlaneError(SlotPoints(0), q))

\* q comes before r in row-major order
RowMajorBefore(q, r) == q[2] < r[2] \/ (q[2] = r[2] /\ q[1] <= r[1])

C23_ScanEqualsEveryPixel ==
    pc = "rastered" =>
        /\ Len(triangle_errors) = 1
        /\ \A q \in InteriorPixels :
              /\ ~ErrGT(PlaneError(SlotPoints(0), q), triangle_errors[1])
              /\ \E s \in last_op.ret.scanned : s[1] = q[1] /\ s[2] = q[2]
        /\ \E q \in InteriorPixels :
              SameError(PlaneError(SlotPoints(0), q), triangle_errors[1])
        /\ IF ErrGT(triangle_errors[1], ZeroError)
           THEN /\ IsMaximal(candidate_points[1])
                /\ \A r \in InteriorPixels :
                      IsMaximal(r) => RowMajorBefore(candidate_points[1], r)
           ELSE candidate_points[1] = <<0, 0>>
        /\ \A s \in last_op.ret.scanned :
              /\ s[3] = get_signed_area(vertex_points[2], vertex_points[3], <<s[1], s[2]>>)
              /\ s[4] = get_signed_area(vertex_points[3], vertex_points[1], <<s[1], s[2]>>)
              /\ s[5] = get_signed_area(vertex_points[1], vertex_points[2], <<s[1], s[2]>>)

C23_Witness ==
    /\ pc = "rastered"
    /\ ErrGT(triangle_errors[1], ZeroError)
    /\ Cardinality({q \in InteriorPixels : IsMaximal(q)}) > 1
    /\ Cardinality(last_op.ret.scanned) < (width * height)
    /\ \E s \in last_op.ret.scanned : s[1] > 0 /\ s[3] < 0
    /\ \E q \in GridPoints :
          /\ q \notin InteriorPixels
          /\ \A s \in last_op.ret.scanned : <<s[1], s[2]>> # q

(***************************************************************************)
(* C24: whenever step pops a triangle, its queued error is above the       *)
(* tolerance and above 0, and the candidate it inserts is a grid point     *)
(* inside or on an edge of the triangle that is none of its vertices; a    *)
(* candidate collinear with an edge lies strictly between the endpoints of *)
(* that edge.                                                              *)
(***************************************************************************)
StrictlyBetween(a, b, q) ==
    /\ get_signed_area(a, b, q) = 0
    /\ q # a
    /\ q # b
    /\ Min3(a[1], b[1], b[1]) <= q[1] /\ q[1] <= Max3(a[1], b[1], b[1])
    /\ Min3(a[2], b[2], b[2]) <= q[2] /\ q[2] <= Max3(a[2], b[2], b[2])

C24_CandidateInsidePopped ==
    pc = "step" =>
        LET t == At(triangle_queue, 0)
            p == SlotPoints(t)
            c == At(candidate_points, t)
        IN  /\ ErrGT(At(triangle_errors, 0), max_error)
            /\ ErrGT(At(triangle_errors, 0), ZeroError)
            /\ c \in GridPoints
            /\ Contains(p, c)
            /\ c \notin {p[1], p[2], p[3]}
            /\ get_signed_area(p[1], p[2], c) = 0 => StrictlyBetween(p[1], p[2], c)
            /\ get_signed_area(p[2], p[3], c) = 0 => StrictlyBetween(p[2], p[3], c)
            /\ get_signed_area(p[3], p[1], c) = 0 => StrictlyBetween(p[3], p[1], c)

C24_Witness ==
    /\ pc = "step"
    /\ steps > 0
    /\ InsertionKind(At(triangle_queue, 0)) = "collinear_twin"
    /\ At(candidate_points, At(triangle_queue, 0)) \notin {Corners[k] : k \in 1..4}

(***************************************************************************)
(* C25: for every valid input the refinement loop ends: each step appends  *)
(* exactly one vertex, at most W * H - 4 steps run, and the run ends with  *)
(* the root error within the tolerance, never with a failure and never     *)
(* with MaxErrorRetrievalError or EmptyQueueError.                         *)
(***************************************************************************)
\* what C25 says of the steps that do run
StepsAppendOneVertex ==
    /\ steps <= width * height - 4
    /\ pc \in {"loop", "step"} => Len(vertex_points) = 4 + steps
    /\ result \notin {"MaxErrorRetrievalError", "EmptyQueueError"}

C25_LoopEndsWithinTolerance ==
    Len(height_data) = width * height =>
        /\ StepsAppendOneVertex
        /\ pc # "panic"
        /\ pc = "done" =>
              /\ result = "Ok"
              /\ Len(vertex_points) = 4 + steps
              /\ ~ErrGT(At(triangle_errors, 0), max_error)

(***************************************************************************)
(* C26: every call of legalize made during a step terminates: each flip    *)
(* replaces the diagonal AB by XY, rewriting the two slots as (X, Y, B)    *)
(* and (Y, X, A) without changing the number of slots or the vertex table, *)
(* and each flip strictly decreases the number of non-locally-Delaunay     *)
(* edges opposite the newly inserted vertex X.                             *)
(***************************************************************************)
\* the vertex inserted by the step in progress
NewVertex == Len(vertex_points) - 1

\* the slots that have x among their vertices
SlotsContaining(x) ==
    Cardinality({t \in Slots : \E k \in 0..2 : At(triangles, 3 * t + k) = x})

\* the paired half-edges opposite x whose two triangles fail the test of legalize
ViolatingOpposite(x) ==
    Cardinality({p \in 0..(Len(half_edges) - 1) :
                    /\ At(triangles, PrevPosition(p)) = x
                    /\ At(half_edges, p) # None
                    /\ NeedsFlip(M, p, At(half_edges, p))})

\* a step of the model in which legalize flips
FlipStep ==
    /\ pc = "legalize"
    /\ pc' = "legalize"
    /\ last_op'.name = "legalize"
    /\ last_op'.kind = "flip"

\* the flip on half-edge p rewrote the two slots as (X, Y, B) and (Y, X, A)
FlipRewrites(p) ==
    LET q == At(half_edges, p)
        X == At(triangles, PrevPosition(p))
        A == At(triangles, p)
        B == At(triangles, NextPosition(p))
        Y == At(triangles, PrevPosition(q))
    IN  /\ X = NewVertex
        /\ Len(triangles') = Len(triangles)
        /\ vertex_points' = vertex_points
        /\ PointsOf(triangles', p \div 3) = PointsOf(<<X, Y, B>>, 0)
        /\ PointsOf(triangles', q \div 3) = PointsOf(<<Y, X, A>>, 0)
        /\ \A t \in Slots \ {p \div 3, q \div 3} :
              PointsOf(triangles', t) = PointsOf(triangles, t)

\* C26 as stated: each flip strictly decreases the number of violating edges
\* opposite X
C26_FlipDecreasesViolating ==
    [][FlipStep =>
         /\ FlipRewrites(last_op'.arg)
         /\ ViolatingOpposite(NewVertex)' < ViolatingOpposite(NewVertex)]_vars

\* C26 amended: each flip rewrites the two slots as stated and adds one slot
\* to those containing X, whose number is bounded by the number of slots
C26_FlipGrowsFan ==
    [][FlipStep =>
         /\ FlipRewrites(last_op'.arg)
         /\ SlotsContaining(NewVertex)' = SlotsContaining(NewVertex) + 1
         /\ SlotsContaining(NewVertex)' <= NumTriangles]_vars

\* a flip made by a recursive call: X is already in more slots than a step
\* alone gives it
C26_Witness ==
    /\ pc = "legalize"
    /\ last_op.name = "legalize"
    /\ last_op.kind = "flip"
    /\ Len(adds) = 2
    /\ SlotsContaining(NewVertex) > 4

(***************************************************************************)
(* C27: for grid points p, a, b, c with get_signed_area(a, b, c) > 0,      *)
(* is_point_in_circumcircle(p, a, b, c) is true exactly when p lies        *)
(* strictly inside the circle through a, b and c; for p on the circle,     *)
(* p equal to a, b or c included, it is false.                             *)
(***************************************************************************)
\* q is at the same distance from the circumcentre as a
OnCircle(q, a, b, c) ==
    LET d == 2 * (a[1] * (b[2] - c[2]) + b[1] * (c[2] - a[2]) + c[1] * (a[2] - b[2]))
        na == Sq(a[1]) + Sq(a[2])
        nb == Sq(b[1]) + Sq(b[2])
        nc == Sq(c[1]) + Sq(c[2])
        ux == na * (b[2] - c[2]) + nb * (c[2] - a[2]) + nc * (a[2] - b[2])
        uy == na * (c[1] - b[1]) + nb * (a[1] - c[1]) + nc * (b[1] - a[1])
    IN  Sq(d * q[1] - ux) + Sq(d * q[2] - uy) = Sq(d * a[1] - ux) + Sq(d * a[2] - uy)

C27_TrueIffStrictlyInside ==
    (pc = "circled" /\ last_op.name = "is_point_in_circumcircle") =>
        LET q == vertex_points[1]
            a == vertex_points[2]
            b == vertex_points[3]
            c == vertex_points[4]
        IN  /\ last_op.ret <=> StrictlyInsideCircle(q, a, b, c)
            /\ OnCircle(q, a, b, c) => ~last_op.ret
            /\ q \in {a, b, c} => ~last_op.ret

\* a test point on the circle that is no vertex of the triangle
C27_Witness ==
    /\ pc = "circled"
    /\ last_op.name = "is_point_in_circumcircle"
    /\ ~last_op.ret
    /\ vertex_points[1] \notin {vertex_points[2], vertex_points[3], vertex_points[4]}
    /\ OnCircle(vertex_points[1], vertex_points[2], vertex_points[3], vertex_points[4])

(***************************************************************************)
(* C28: for points with coordinates of magnitude up to 2^20 no product or  *)
(* sum in is_point_in_circumcircle overflows, and the boolean returned     *)
(* equals the sign test on the exact determinant.                          *)
(***************************************************************************)
\* the point in units of Unit; the sign of the exact determinant does not
\* change with the unit
InUnits(q) == <<q[1] \div Unit, q[2] \div Unit>>

C28_NoOverflowExactSign ==
    (pc \in {"isize_done", "panic"} /\ last_op.name = "is_point_in_circumcircle") =>
        /\ pc # "panic"
        /\ last_op.kind \notin {"wrapped", "overflow"}
        /\ last_op.ret <=> StrictlyInsideCircle(InUnits(vertex_points[1]),
                                               InUnits(vertex_points[2]),
                                               InUnits(vertex_points[3]),
                                               InUnits(vertex_points[4]))
====
